---- MODULE Spec2Model ----
(***************************************************************************)
(* QuantumSQL v7.4 (quntam_sql.py): the filter front end (normalize_expr,  *)
(* tokenize, parse_expression), the batch worker simulate_batch, the       *)
(* aggregator aggregate_results and the engine QuantumSQL.run_query.       *)
(*                                                                         *)
(* Representation of text.  A Python str is modelled as a sequence of      *)
(* lexemes: every element is either one punctuation character, one         *)
(* whitespace character, or one maximal run of word characters (\w+).      *)
(* Two word lexemes are never adjacent (they would be one run).  Word      *)
(* lexemes are either identifiers/keywords or digit strings.               *)
(*                                                                         *)
(* Representation of floats.  In the engine a score is an exact rational   *)
(* <<num, den>> with den > 0 in lowest terms; <<0, 0>> is NaN.  Rounding   *)
(* is modelled where it decides the outcome: aggregate_results is also     *)
(* given in binary floating point with round-to-nearest-even (SpecAgg).    *)
(*                                                                         *)
(* QuantumSQL v4.8 (quantum_sql.py): QuantumTable, the amplitude logic     *)
(* simulate_amplitude_logic and QuantumSQLServer (execute, _handle_select, *)
(* set_logic_mode) with a client issuing statements (SpecServer,           *)
(* SpecSelect).                                                            *)
(***************************************************************************)
EXTENDS Integers, Sequences, FiniteSets, TLC

VARIABLES
    columns,        \* QuantumSQL.columns
    rows,           \* run_query argument rows
    condition_str,  \* run_query argument condition_str
    expr,           \* local expr: the normalized condition
    tokens,         \* local tokens as returned by tokenize
    ast,            \* local ast (prefix serialisation of the tuple tree)
    mode,           \* local mode
    batches,        \* local batches: sequence of [id, rows, total_qubits, mode]
    running,        \* batch ids handed to the pool and not yet returned
    completed,      \* (batch_id, probs) pairs in the order workers finished
    execs,          \* number of simulate_batch executions per batch id
    results,        \* local results: what pool.map returned
    aggregations,   \* number of aggregate_results calls in this run_query
    probs,          \* returned score vector
    match_idx,      \* local match_idx: indices selected by the aggregator
    matched,        \* returned matched rows
    outcome,        \* "none", "ok" or the name of the exception raised
    passes,         \* number of normalize_expr applications (SpecNorm)
    pc,             \* position of the caller
    gpu_probes,     \* has_gpu() calls made by the current run_query
    databases,      \* QuantumSQLServer.databases: name -> (name -> table)
    current_db,     \* QuantumSQLServer.current_db: <<>> is None, else <<name>>
    logic_mode,     \* QuantumSQLServer.logic_mode
    sql,            \* argument of the last execute call
    returned,       \* what the last execute call returned
    raised          \* exception the last execute call raised, or "none"

vars == <<columns, rows, condition_str, expr, tokens, ast, mode, batches,
          running, completed, execs, results, aggregations, probs, match_idx,
          matched, outcome, passes, pc, gpu_probes, databases, current_db,
          logic_mode, sql, returned, raised>>

serverVars == <<databases, current_db, logic_mode, sql, returned, raised>>

(***************************************************************************)
(* Bounds of the model.                                                    *)
(***************************************************************************)
MaxRows == 4
MaxPieces == 3
MaxTokens == 4

(***************************************************************************)
(* Lexeme classes.                                                         *)
(***************************************************************************)
Whitespace == {" ", "\t"}
DigitWords == {"1", "2", "100"}
IdentWords == {"bp", "BP", "zz", "fever", "and", "AND", "or", "OR",
               "not", "NOT", "between", "BETWEEN"}
WordLexemes == DigitWords \cup IdentWords
NumberChars == DigitWords \cup {"-", "."}
CmpOps == {"<=", ">=", "==", "!=", "<", ">"}

\* str.lower() / (?i) matching on one lexeme
Lower(t) ==
    CASE t = "BP" -> "bp"
      [] t = "AND" -> "and"
      [] t = "OR" -> "or"
      [] t = "NOT" -> "not"
      [] t = "BETWEEN" -> "between"
      [] OTHER -> t

RECURSIVE SkipWs(_, _)
\* \s+ and \s* : first index >= i whose lexeme is not whitespace
SkipWs(s, i) ==
    IF i <= Len(s) /\ s[i] \in Whitespace THEN SkipWs(s, i + 1) ELSE i

RECURSIVE NumberEnd(_, _)
\* [-\d\.]+ : first index >= i whose lexeme is not in the class
NumberEnd(s, i) ==
    IF i <= Len(s) /\ s[i] \in NumberChars THEN NumberEnd(s, i + 1) ELSE i

Slice(s, a, b) == IF a >= b THEN <<>> ELSE SubSeq(s, a, b - 1)

\* The six positions of a match of
\*   \b(\w+)\s+BETWEEN\s+([-\d\.]+)\s+AND\s+([-\d\.]+)
\* starting at lexeme i, or <<>> when the pattern does not match there.
BetweenMatch(s, i) ==
    LET j1 == SkipWs(s, i + 1)
        j2 == SkipWs(s, j1 + 1)
        j3 == NumberEnd(s, j2)
        j4 == SkipWs(s, j3)
        j5 == SkipWs(s, j4 + 1)
        j6 == NumberEnd(s, j5)
    IN IF /\ i <= Len(s) /\ s[i] \in WordLexemes
          /\ (i = 1 \/ s[i - 1] \notin WordLexemes)
          /\ j1 > i + 1 /\ j1 <= Len(s) /\ Lower(s[j1]) = "between"
          /\ j2 > j1 + 1
          /\ j3 > j2
          /\ j4 > j3 /\ j4 <= Len(s) /\ Lower(s[j4]) = "and"
          /\ j5 > j4 + 1
          /\ j6 > j5
       THEN <<j1, j2, j3, j4, j5, j6>>
       ELSE <<>>

\* r"(\1 >= \2 and \1 <= \3)"
BetweenReplacement(col, lo, hi) ==
    <<"(", col, " ", ">", "=", " ">> \o lo
        \o <<" ", "and", " ", col, " ", "<", "=", " ">> \o hi \o <<")">>

RECURSIVE SubBetween(_, _)
SubBetween(s, i) ==
    IF i > Len(s) THEN <<>>
    ELSE LET m == BetweenMatch(s, i)
         IN IF m # <<>>
            THEN BetweenReplacement(s[i], Slice(s, m[2], m[3]),
                                    Slice(s, m[5], m[6]))
                     \o SubBetween(s, m[6])
            ELSE <<s[i]>> \o SubBetween(s, i + 1)

\* re.sub(r"(?i)\bAND\b", "and", ...) and the same for OR, NOT
SubKeyword(s, kw) ==
    [i \in 1..Len(s) |-> IF Lower(s[i]) = kw THEN kw ELSE s[i]]

RECURSIVE Replace(_, _, _, _)
\* str.replace(old, new): leftmost non-overlapping occurrences, one pass
Replace(s, i, old, new) ==
    IF i > Len(s) THEN <<>>
    ELSE IF i + Len(old) - 1 <= Len(s)
            /\ SubSeq(s, i, i + Len(old) - 1) = old
         THEN new \o Replace(s, i + Len(old), old, new)
         ELSE <<s[i]>> \o Replace(s, i + 1, old, new)

RECURSIVE RStripEnd(_, _)
RStripEnd(s, j) ==
    IF j >= 1 /\ s[j] \in Whitespace THEN RStripEnd(s, j - 1) ELSE j

\* str.strip()
Strip(s) == Slice(s, SkipWs(s, 1), RStripEnd(s, Len(s)) + 1)

RECURSIVE CollapseWs(_, _)
\* re.sub(r"\s+", " ", ...)
CollapseWs(s, i) ==
    IF i > Len(s) THEN <<>>
    ELSE IF s[i] \in Whitespace
         THEN <<" ">> \o CollapseWs(s, SkipWs(s, i))
         ELSE <<s[i]>> \o CollapseWs(s, i + 1)

normalize_expr(s) ==
    LET e1 == SubBetween(s, 1)
        e2 == SubKeyword(e1, "and")
        e3 == SubKeyword(e2, "or")
        e4 == SubKeyword(e3, "not")
        e5 == Replace(e4, 1, <<">", "=", "=">>, <<">", "=">>)
        e6 == Replace(e5, 1, <<"<", "=", "=">>, <<"<", "=">>)
    IN CollapseWs(Strip(e6), 1)

RECURSIVE TokenizeFrom(_, _)
\* TokenizeFrom trying [<>] before [<>!=]=
TokenizeOneCharFirst(s, i) ==
    IF i <= Len(s) /\ s[i] \in {"<", ">"}
    THEN <<s[i]>> \o TokenizeFrom(s, i + 1)
    ELSE IF i > Len(s) THEN <<>>
    ELSE IF s[i] \in {"(", ")"} \cup IdentWords
         THEN <<s[i]>> \o TokenizeFrom(s, i + 1)
    ELSE IF s[i] \in {"!", "="} /\ i + 1 <= Len(s) /\ s[i + 1] = "="
         THEN <<s[i] \o "=">> \o TokenizeFrom(s, i + 2)
    ELSE IF s[i] \in DigitWords /\ i + 2 <= Len(s) /\ s[i + 1] = "."
            /\ s[i + 2] \in DigitWords
         THEN <<s[i] \o "." \o s[i + 2]>> \o TokenizeFrom(s, i + 3)
    ELSE IF s[i] \in DigitWords
         THEN <<s[i]>> \o TokenizeFrom(s, i + 1)
    ELSE TokenizeFrom(s, i + 1)

\* re.findall scan of r"\(|\)|[A-Za-z_]\w*|[<>!=]=|[<>]|and|or|not|\d+\.\d+|\d+":
\* alternatives are tried in order at each position; a lexeme that starts no
\* alternative is skipped.
TokenizeFrom(s, i) ==
    IF i > Len(s) THEN <<>>
    ELSE IF s[i] \in {"(", ")"}
         THEN <<s[i]>> \o TokenizeFrom(s, i + 1)
    ELSE IF s[i] \in IdentWords
         THEN <<s[i]>> \o TokenizeFrom(s, i + 1)
    ELSE IF s[i] \in {"<", ">", "!", "="} /\ i + 1 <= Len(s) /\ s[i + 1] = "="
         THEN <<s[i] \o "=">> \o TokenizeFrom(s, i + 2)
    ELSE IF s[i] \in {"<", ">"}
         THEN <<s[i]>> \o TokenizeFrom(s, i + 1)
    ELSE IF s[i] \in DigitWords /\ i + 2 <= Len(s) /\ s[i + 1] = "."
            /\ s[i + 2] \in DigitWords
         THEN <<s[i] \o "." \o s[i + 2]>> \o TokenizeFrom(s, i + 3)
    ELSE IF s[i] \in DigitWords
         THEN <<s[i]>> \o TokenizeFrom(s, i + 1)
    ELSE TokenizeFrom(s, i + 1)

tokenize(s) == TokenizeFrom(s, 1)

(***************************************************************************)
(* parse_expression.  The AST tuple tree is kept in prefix form:           *)
(* ("AND", l, r) is <<"AND">> \o l \o r, ("CMP", c, op, v) is              *)
(* <<"CMP", c, op, v>>, ("VAR", c) is <<"VAR", c>>, ("NOT", n) is          *)
(* <<"NOT">> \o n.  A result is [ok, node, toks]: ok = FALSE when          *)
(* tokens.pop(0) raised IndexError on an empty list; toks is what is left  *)
(* of the token list.                                                      *)
(***************************************************************************)
Raised == [ok |-> FALSE, node |-> <<>>, toks |-> <<>>]
Parsed(n, t) == [ok |-> TRUE, node |-> n, toks |-> t]

RECURSIVE parse_atom(_), parse_and(_), parse_or(_), AndLoop(_, _), OrLoop(_, _)

parse_atom(toks) ==
    IF toks = <<>> THEN Raised
    ELSE LET tok == Head(toks)
             rest == Tail(toks)
         IN IF tok = "("
            THEN LET r == parse_or(rest)
                 IN IF ~r.ok THEN Raised
                    ELSE IF r.toks = <<>> THEN Raised
                    ELSE Parsed(r.node, Tail(r.toks))
            ELSE IF Lower(tok) = "not"
            THEN LET r == parse_atom(rest)
                 IN IF ~r.ok THEN Raised
                    ELSE Parsed(<<"NOT">> \o r.node, r.toks)
            ELSE IF Len(rest) >= 2 /\ rest[1] \in CmpOps
            THEN Parsed(<<"CMP", Lower(tok), rest[1], rest[2]>>,
                        SubSeq(rest, 3, Len(rest)))
            ELSE Parsed(<<"VAR", Lower(tok)>>, rest)

AndLoop(node, toks) ==
    IF toks # <<>> /\ Lower(Head(toks)) = "and"
    THEN LET r == parse_atom(Tail(toks))
         IN IF ~r.ok THEN Raised
            ELSE AndLoop(<<"AND">> \o node \o r.node, r.toks)
    ELSE Parsed(node, toks)

parse_and(toks) ==
    LET r == parse_atom(toks)
    IN IF ~r.ok THEN Raised ELSE AndLoop(r.node, r.toks)

\* OrLoop taking a single atom as the right operand of "or"
OrLoopFlat(node, toks) ==
    IF toks # <<>> /\ Lower(Head(toks)) = "or"
    THEN LET r == parse_atom(Tail(toks))
         IN IF ~r.ok THEN Raised
            ELSE OrLoop(<<"OR">> \o node \o r.node, r.toks)
    ELSE Parsed(node, toks)

OrLoop(node, toks) ==
    IF toks # <<>> /\ Lower(Head(toks)) = "or"
    THEN LET r == parse_and(Tail(toks))
         IN IF ~r.ok THEN Raised
            ELSE OrLoop(<<"OR">> \o node \o r.node, r.toks)
    ELSE Parsed(node, toks)

parse_or(toks) ==
    LET r == parse_and(toks)
    IN IF ~r.ok THEN Raised ELSE OrLoop(r.node, r.toks)

parse_expression(toks) == parse_or(toks)

(***************************************************************************)
(* Exact arithmetic on scores.                                             *)
(***************************************************************************)
NaN == <<0, 0>>
IsNaN(x) == x[2] = 0

Abs(n) == IF n < 0 THEN -n ELSE n

RECURSIVE GCD(_, _)
GCD(a, b) == IF b = 0 THEN a ELSE GCD(b, a % b)

\* the rational n/d, d > 0, in lowest terms
Q(n, d) == LET g == GCD(Abs(n), d) IN <<n \div g, d \div g>>

QAdd(x, y) == IF IsNaN(x) \/ IsNaN(y) THEN NaN
              ELSE Q(x[1] * y[2] + y[1] * x[2], x[2] * y[2])
QSub(x, y) == IF IsNaN(x) \/ IsNaN(y) THEN NaN
              ELSE Q(x[1] * y[2] - y[1] * x[2], x[2] * y[2])
QMul(x, y) == IF IsNaN(x) \/ IsNaN(y) THEN NaN
              ELSE Q(x[1] * y[1], x[2] * y[2])
\* numpy true division.  Every divisor in this program is a sum of entries
\* that are NaN or >= 0, so it is zero only when each entry is zero: a zero
\* divisor always meets a zero dividend, and 0/0 is nan.
QDiv(x, y) == IF IsNaN(x) \/ IsNaN(y) \/ y[1] = 0 THEN NaN
              ELSE IF y[1] > 0 THEN Q(x[1] * y[2], x[2] * y[1])
              ELSE Q(-(x[1] * y[2]), x[2] * (-y[1]))
\* x <= y on floats: False when either side is nan
QLe(x, y) == ~IsNaN(x) /\ ~IsNaN(y) /\ x[1] * y[2] <= y[1] * x[2]

RECURSIVE QSum(_)
\* np.sum
QSum(v) == IF v = <<>> THEN Q(0, 1) ELSE QAdd(Head(v), QSum(Tail(v)))

\* np.mean
QMean(v) == QDiv(QSum(v), Q(Len(v), 1))

\* np.std(v) ** 2 (population variance, ddof = 0)
QVar(v) ==
    LET m == QMean(v)
    IN QMean([i \in 1..Len(v) |-> QMul(QSub(v[i], m), QSub(v[i], m))])

\* np.clip(x, 0, 1)
Clip01(x) == IF IsNaN(x) THEN NaN
             ELSE IF QLe(x, Q(0, 1)) THEN Q(0, 1)
             ELSE IF QLe(Q(1, 1), x) THEN Q(1, 1)
             ELSE x

\* AtLeastThreshold with > in place of >=
AboveThreshold(x, v) ==
    LET d == QSub(x, QMean(v))
    IN ~QLe(d, Q(0, 1)) /\ ~QLe(QMul(d, d), QVar(v))

\* x >= np.mean(v) + np.std(v).  The square root is eliminated: std >= 0, so
\* x - mean >= std holds iff x - mean >= 0 and (x - mean)^2 >= std^2.
AtLeastThreshold(x, v) ==
    LET d == QSub(x, QMean(v))
    IN QLe(Q(0, 1), d) /\ QLe(QVar(v), QMul(d, d))

RECURSIVE CeilLog2From(_, _, _)
CeilLog2From(k, e, pw) == IF pw >= k THEN e ELSE CeilLog2From(k, e + 1, 2 * pw)
\* int(math.ceil(math.log2(k))) for k >= 1
CeilLog2(k) == CeilLog2From(k, 0, 1)

RECURSIVE Pow2(_)
Pow2(e) == IF e = 0 THEN 1 ELSE 2 * Pow2(e - 1)

\* CeilDiv rounding down: a // b
FloorDiv(a, b) == a \div b

\* math.ceil(a / b) for a >= 0, b >= 1
CeilDiv(a, b) == (a + b - 1) \div b

Min(a, b) == IF a <= b THEN a ELSE b

(***************************************************************************)
(* simulate_batch.  batch is the argument tuple as a record; noise is the  *)
(* vector drawn by np.random.normal(0, 0.01, len(batch_rows)).             *)
(***************************************************************************)
simulate_batch(batch, noise) ==
    LET len == Len(batch.rows)
        n0 == CeilLog2(len)
        n == IF n0 = 0 THEN 1 ELSE n0
    IN IF batch.mode \in {"gpu", "cpu"}
       THEN \* |H^n|0..0>|^2 is uniform over 2^n states; probs[:len]
            <<batch.id, [i \in 1..len |-> Q(1, Pow2(n))]>>
       ELSE LET p1 == [i \in 1..len |-> QAdd(Q(1, len), noise[i])]
                p2 == [i \in 1..len |-> Clip01(p1[i])]
                total == QSum(p2)
            IN <<batch.id, [i \in 1..len |-> QDiv(p2[i], total)]>>

(***************************************************************************)
(* aggregate_results.                                                      *)
(***************************************************************************)
RECURSIVE InsertById(_, _)
InsertById(pair, sorted) ==
    IF sorted = <<>> THEN <<pair>>
    ELSE IF pair[1] <= Head(sorted)[1] THEN <<pair>> \o sorted
    ELSE <<Head(sorted)>> \o InsertById(pair, Tail(sorted))

\* SortById without the sort: the pairs as they arrive
Unsorted(res) == res

RECURSIVE SortById(_)
\* sorted(batch_results): tuples compare on batch_id first; ids are distinct,
\* so the arrays are never compared
SortById(res) ==
    IF res = <<>> THEN <<>> ELSE InsertById(Head(res), SortById(Tail(res)))

RECURSIVE Concatenate(_)
\* np.concatenate([p for _, p in ...])
Concatenate(res) ==
    IF res = <<>> THEN <<>> ELSE Head(res)[2] \o Concatenate(Tail(res))

RECURSIVE Where(_, _, _)
\* np.where(probs_all >= thr)[0]: the indices (0-based), ascending
Where(v, all, i) ==
    IF i > Len(v) THEN <<>>
    ELSE IF AtLeastThreshold(v[i], all)
         THEN <<i - 1>> \o Where(v, all, i + 1)
         ELSE Where(v, all, i + 1)

aggregate_results(batch_results, rws) ==
    LET cat == Concatenate(SortById(batch_results))
        cut == SubSeq(cat, 1, Min(Len(rws), Len(cat)))
        total == QSum(cut)
        probs_all == [i \in 1..Len(cut) |-> QDiv(cut[i], total)]
    IN <<probs_all, Where(probs_all, probs_all, 1)>>

(***************************************************************************)
(* Inputs.                                                                 *)
(***************************************************************************)
MaxCpus == 9

\* program constants of run_query
QubitOverhead == 32
QubitLimit == 28
MaxCluster == 8

\* the rows of main.py (temp kept as text); run_query never looks inside a row
ExampleRows ==
    << <<"P1", 120, "36.7", 0>>, <<"P2", 110, "37.0", 1>>,
       <<"P3", 95, "36.5", 0>>,  <<"P4", 140, "38.2", 1>>,
       <<"P5", 125, "37.5", 0>>, <<"P6", 128, "39.1", 1>>,
       <<"P7", 122, "36.8", 0>>, <<"P8", 99, "37.9", 1>>,
       <<"P9", 130, "38.8", 0>>, <<"P10", 115, "37.0", 0>> >>

ExampleColumns == <<"id", "bp", "temp", "fever">>

RowInputs == {SubSeq(ExampleRows, 1, k) : k \in 0..MaxRows}

\* filter strings handed to run_query
FilterGt        == <<"bp", " ", ">", " ", "100">>                \* "bp > 100"
FilterGtGt      == <<"bp", " ", ">", ">", " ", "100">>           \* "bp >> 100"
FilterUnknown   == <<"zz", " ", ">", " ", "1">>                  \* "zz > 1"
FilterBetween   == <<"BP", " ", "BETWEEN", " ", "1", " ", "AND", " ", "100">>
FilterUnclosed  == <<"(", "bp", " ", ">", " ", "1">>             \* "(bp > 1"
FilterCloseOnly == <<")", " ", "bp">>                            \* ") bp"
FilterNoLeft    == <<">", " ", "1">>                             \* "> 1"
FilterEmpty     == <<>>                                          \* ""
FilterDangling  == <<"bp", " ", ">", " ", "1", " ", "and">>      \* "bp > 1 and"
FilterVarOr     == <<"fever", " ", "OR", " ", "NOT", " ", "bp", " ", "<", "=", " ", "2">>

FilterInputs == {FilterGt, FilterGtGt, FilterUnknown, FilterBetween,
                 FilterUnclosed, FilterCloseOnly, FilterNoLeft, FilterEmpty,
                 FilterDangling, FilterVarOr}

\* Values standing for one draw of np.random.normal(0, 0.01).  The normal
\* distribution has unbounded support: a draw may lie below -1/len (the entry
\* is clipped to 0), near 0, or push the entry above 1 (clipped to 1).
NoiseVals == {Q(-1, 1), Q(0, 1), Q(1, 2)}

(***************************************************************************)
(* QuantumSQL.__init__ and run_query.                                      *)
(***************************************************************************)
\* rows[a:b] with 0-based bounds, clamped as Python slices are
PySlice(s, a, b) == Slice(s, a + 1, Min(b, Len(s)) + 1)

RECURSIVE BuildBatches(_, _, _, _, _, _)
\* [(i, rows[i*batch_size:(i+1)*batch_size], total_qubits, mode)
\*  for i in range(cluster_size) if i*batch_size < len(rows)], from index i on
BuildBatches(i, cluster_size, batch_size, rws, total_qubits, m) ==
    IF i >= cluster_size THEN <<>>
    ELSE IF i * batch_size < Len(rws)
         THEN <<[id |-> i,
                 rows |-> PySlice(rws, i * batch_size, (i + 1) * batch_size),
                 total_qubits |-> total_qubits,
                 mode |-> m]>>
                  \o BuildBatches(i + 1, cluster_size, batch_size, rws,
                                  total_qubits, m)
         ELSE BuildBatches(i + 1, cluster_size, batch_size, rws,
                           total_qubits, m)

\* n_qubits + 32 for n_rows >= 1
TotalQubits(n_rows) ==
    LET q == CeilLog2(n_rows)
    IN (IF q = 0 THEN 1 ELSE q) + QubitOverhead

\* SelectMode with the first test inverted
SelectModeInverted(total_qubits, gpu) ==
    IF total_qubits <= QubitLimit THEN "sparse"
    ELSE IF gpu THEN "gpu"
    ELSE "cpu"

\* the if/elif/else that assigns mode; gpu is what has_gpu() returns
SelectMode(total_qubits, gpu) ==
    IF total_qubits > QubitLimit THEN "sparse"
    ELSE IF gpu THEN "gpu"
    ELSE "cpu"

\* ProbeCalls when the elif is evaluated whatever the first test gave
ProbeCallsAlways(total_qubits) == 1

\* how often has_gpu() is called: the elif is evaluated only when the first
\* test is false
ProbeCalls(total_qubits) == IF total_qubits > QubitLimit THEN 0 ELSE 1

\* min(cpu_count(), 8)
ClusterSize(cpus) == Min(cpus, MaxCluster)

MakeBatches(rws, cpus, gpu) ==
    LET total_qubits == TotalQubits(Len(rws))
        cluster_size == ClusterSize(cpus)
        batch_size == CeilDiv(Len(rws), cluster_size)
    IN BuildBatches(0, cluster_size, batch_size, rws, total_qubits,
                    SelectMode(total_qubits, gpu))

\* dict(): the function with no keys
EmptyDict == [k \in {} |-> {}]

\* the value execute returns when it returns nothing
None == [kind |-> "None", rows |-> <<>>, p |-> <<>>]

\* QuantumSQLServer.__init__, before any execute call
ServerInit ==
    /\ databases = EmptyDict
    /\ current_db = <<>>
    /\ logic_mode = "CLASSIC"
    /\ sql = <<>>
    /\ returned = None
    /\ raised = "none"

\* Log2Raises with the domain error swallowed
Log2NeverRaises(rws) == FALSE

\* math.log2(len(rows)) raises ValueError (math domain error) for no rows
Log2Raises(rws) == Len(rws) = 0

NoRun ==
    /\ mode' = "none" /\ batches' = <<>> /\ running' = {} /\ execs' = <<>>
    /\ gpu_probes' = 0

\* run_query up to the point where pool.map blocks: normalize, tokenize,
\* parse, choose the mode, build the batches and hand them to the pool.
\* cpus is what os.cpu_count() reports, gpu what has_gpu() would report.
Call(rws, cond, cpus, gpu) ==
    /\ pc = "idle"
    /\ LET e == normalize_expr(cond)
           toks == tokenize(e)
           p == parse_expression(toks)
       IN /\ rows' = rws
          /\ condition_str' = cond
          /\ expr' = e
          /\ tokens' = toks
          /\ ast' = p.node
          /\ IF ~p.ok
             THEN NoRun /\ outcome' = "IndexError" /\ pc' = "done"
             ELSE IF Log2Raises(rws)
             THEN NoRun /\ outcome' = "ValueError" /\ pc' = "done"
             ELSE LET bs == MakeBatches(rws, cpus, gpu)
                  IN /\ mode' = SelectMode(TotalQubits(Len(rws)), gpu)
                     /\ gpu_probes' = ProbeCalls(TotalQubits(Len(rws)))
                     /\ batches' = bs
                     /\ running' = 1..Len(bs)
                     /\ execs' = [k \in 1..Len(bs) |-> 0]
                     /\ outcome' = "none"
                     /\ pc' = "pool"
    /\ completed' = <<>>
    /\ results' = <<>>
    /\ aggregations' = 0
    /\ probs' = <<>>
    /\ match_idx' = <<>>
    /\ matched' = <<>>
    /\ UNCHANGED <<columns, passes>>
    /\ UNCHANGED serverVars

\* Remaining with the returned task left in the pool's queue
RemainingKeep(run, k) == run

\* a task that has returned is never dispatched again
Remaining(run, k) == run \ {k}

\* one pool worker runs simulate_batch on list element k of batches
WorkerRun(k) ==
    /\ pc = "pool"
    /\ k \in running
    /\ \E noise \in [1..Len(batches[k].rows) -> NoiseVals] :
          completed' = Append(completed,
                              [task |-> k,
                               result |-> simulate_batch(batches[k], noise)])
    /\ running' = Remaining(running, k)
    /\ execs' = [execs EXCEPT ![k] = @ + 1]
    /\ UNCHANGED <<columns, rows, condition_str, expr, tokens, ast, mode,
                   batches, results, aggregations, probs, match_idx, matched,
                   outcome, passes, pc, gpu_probes>>
    /\ UNCHANGED serverVars

\* MatchedRows handing out altered copies of the selected rows
MatchedRowsCopied(rws, idx) ==
    [j \in 1..Len(idx) |-> Append(rws[idx[j] + 1], j)]

\* [rows[i] for i in match_idx]
MatchedRows(rws, idx) == [j \in 1..Len(idx) |-> rws[idx[j] + 1]]

\* the result of list element k, whenever it finished
ResultOf(k) ==
    (CHOOSE c \in {completed[j] : j \in 1..Len(completed)} : c.task = k).result

\* pool.map returns once every task has returned, with the results in the
\* order of its input list; then aggregate_results, the selection of the
\* matched rows and the return
Join ==
    /\ pc = "pool"
    /\ running = {}
    /\ LET res == [k \in 1..Len(batches) |-> ResultOf(k)]
           agg == aggregate_results(res, rows)
       IN /\ results' = res
          /\ probs' = agg[1]
          /\ match_idx' = agg[2]
          /\ matched' = MatchedRows(rows, agg[2])
    /\ aggregations' = aggregations + 1
    /\ outcome' = "ok"
    /\ pc' = "done"
    /\ UNCHANGED <<columns, rows, condition_str, expr, tokens, ast, mode,
                   batches, running, completed, execs, passes, gpu_probes>>
    /\ UNCHANGED serverVars

Init ==
    /\ columns = [i \in 1..Len(ExampleColumns) |-> Lower(ExampleColumns[i])]
    /\ rows = <<>>
    /\ condition_str = <<>>
    /\ expr = <<>>
    /\ tokens = <<>>
    /\ ast = <<>>
    /\ mode = "none"
    /\ batches = <<>>
    /\ running = {}
    /\ completed = <<>>
    /\ execs = <<>>
    /\ results = <<>>
    /\ aggregations = 0
    /\ probs = <<>>
    /\ match_idx = <<>>
    /\ matched = <<>>
    /\ outcome = "none"
    /\ passes = 0
    /\ pc = "idle"
    /\ gpu_probes = 0
    /\ ServerInit

\* run_query returns (probs, matched) or propagates the exception; its frame
\* is discarded and the engine is ready for the next call
Return ==
    /\ pc = "done"
    /\ rows' = <<>>
    /\ condition_str' = <<>>
    /\ expr' = <<>>
    /\ tokens' = <<>>
    /\ ast' = <<>>
    /\ mode' = "none"
    /\ batches' = <<>>
    /\ running' = {}
    /\ completed' = <<>>
    /\ execs' = <<>>
    /\ results' = <<>>
    /\ aggregations' = 0
    /\ probs' = <<>>
    /\ match_idx' = <<>>
    /\ matched' = <<>>
    /\ outcome' = "none"
    /\ pc' = "idle"
    /\ gpu_probes' = 0
    /\ UNCHANGED <<columns, passes>>
    /\ UNCHANGED serverVars

Next ==
    \/ \E rws \in RowInputs, cond \in FilterInputs, cpus \in 1..MaxCpus,
          gpu \in BOOLEAN : Call(rws, cond, cpus, gpu)
    \/ \E k \in 1..MaxRows : WorkerRun(k)
    \/ Join
    \/ Return

Spec == Init /\ [][Next]_vars

(***************************************************************************)
(* normalize_expr applied repeatedly to one string (SpecNorm).             *)
(***************************************************************************)
NormPieces ==
    { <<" ">>, <<"\t">>, <<"bp">>, <<"AND">>, <<"or">>, <<"NOT">>, <<"1">>,
      <<"(">>, <<")">>, <<"=">>, <<">", "=">>, <<"<", "=">>, <<".">>,
      <<"between", " ", "1", " ", "and", "\t", "2">> }

RECURSIVE Flatten(_)
Flatten(ps) == IF ps = <<>> THEN <<>> ELSE Head(ps) \o Flatten(Tail(ps))

\* two word lexemes never touch
WellFormedStr(s) ==
    \A i \in 1..(Len(s) - 1) :
        ~(s[i] \in WordLexemes /\ s[i + 1] \in WordLexemes)

NormInputs ==
    { s \in UNION { {Flatten(ps) : ps \in [1..n -> NormPieces]} : n \in 0..MaxPieces } :
        WellFormedStr(s) }

MaxPasses == 2

InitNorm ==
    /\ columns = <<>>
    /\ rows = <<>>
    /\ condition_str \in NormInputs
    /\ expr = condition_str
    /\ tokens = <<>>
    /\ ast = <<>>
    /\ mode = "none"
    /\ batches = <<>>
    /\ running = {}
    /\ completed = <<>>
    /\ execs = <<>>
    /\ results = <<>>
    /\ aggregations = 0
    /\ probs = <<>>
    /\ match_idx = <<>>
    /\ matched = <<>>
    /\ outcome = "none"
    /\ passes = 0
    /\ pc = "norm"
    /\ gpu_probes = 0
    /\ ServerInit

\* expr = normalize_expr(expr)
Normalize ==
    /\ pc = "norm"
    /\ passes < MaxPasses
    /\ expr' = normalize_expr(expr)
    /\ passes' = passes + 1
    /\ UNCHANGED <<columns, rows, condition_str, tokens, ast, mode, batches,
                   running, completed, execs, results, aggregations, probs,
                   match_idx, matched, outcome, pc, gpu_probes>>
    /\ UNCHANGED serverVars

NextNorm == Normalize

SpecNorm == InitNorm /\ [][NextNorm]_vars

(***************************************************************************)
(* parse_expression applied to one token list (SpecParse).                 *)
(***************************************************************************)
ParseTokens == {"(", ")", "bp", "and", "or", "not", ">", "1"}

ParseInputs == UNION { [1..n -> ParseTokens] : n \in 0..MaxTokens }

InitParse ==
    /\ columns = <<>>
    /\ rows = <<>>
    /\ condition_str = <<>>
    /\ expr = <<>>
    /\ tokens \in ParseInputs
    /\ ast = <<>>
    /\ mode = "none"
    /\ batches = <<>>
    /\ running = {}
    /\ completed = <<>>
    /\ execs = <<>>
    /\ results = <<>>
    /\ aggregations = 0
    /\ probs = <<>>
    /\ match_idx = <<>>
    /\ matched = <<>>
    /\ outcome = "none"
    /\ passes = 0
    /\ pc = "parse"
    /\ gpu_probes = 0
    /\ ServerInit

\* ast = parse_expression(tokens), or the IndexError it raises
Parse ==
    /\ pc = "parse"
    /\ LET p == parse_expression(tokens)
       IN /\ ast' = p.node
          /\ outcome' = IF p.ok THEN "ok" ELSE "IndexError"
    /\ pc' = "parsed"
    /\ UNCHANGED <<columns, rows, condition_str, expr, tokens, mode, batches,
                   running, completed, execs, results, aggregations, probs,
                   match_idx, matched, passes, gpu_probes>>
    /\ UNCHANGED serverVars

NextParse == Parse

SpecParse == InitParse /\ [][NextParse]_vars

(***************************************************************************)
(* parse_expression applied to compound filters (SpecPrec): three operands *)
(* joined by and/or/not in the shapes whose grouping shows the precedence  *)
(* and the associativity of the operators, with the keywords in either     *)
(* case.                                                                   *)
(***************************************************************************)
Operands == {<<"bp">>, <<"zz">>, <<"fever">>, <<"bp", ">", "1">>}

KwAnd == {"and", "AND"}
KwOr == {"or", "OR"}
KwNot == {"not", "NOT"}

\* x or y and z
OrAnd(x, y, z, o, a) == x \o <<o>> \o y \o <<a>> \o z
\* x and y or z
AndOr(x, y, z, o, a) == x \o <<a>> \o y \o <<o>> \o z
\* not x and y
NotAnd(x, y, n, a) == <<n>> \o x \o <<a>> \o y
\* not x or y
NotOr(x, y, n, o) == <<n>> \o x \o <<o>> \o y
\* x and y and z
AndAnd(x, y, z, a) == x \o <<a>> \o y \o <<a>> \o z
\* x or y or z
OrOr(x, y, z, o) == x \o <<o>> \o y \o <<o>> \o z
\* (x or y) and z
ParenOrAnd(x, y, z, o, a) == <<"(">> \o x \o <<o>> \o y \o <<")", a>> \o z

PrecInputs ==
    UNION { {OrAnd(x, y, z, o, a), AndOr(x, y, z, o, a),
             ParenOrAnd(x, y, z, o, a), AndAnd(x, y, z, a), OrOr(x, y, z, o)} :
            x \in Operands, y \in Operands, z \in Operands,
            o \in KwOr, a \in KwAnd }
        \cup UNION { {NotAnd(x, y, n, a), NotOr(x, y, n, o)} :
                     x \in Operands, y \in Operands, n \in KwNot,
                     o \in KwOr, a \in KwAnd }

InitPrec ==
    /\ columns = <<>>
    /\ rows = <<>>
    /\ condition_str = <<>>
    /\ expr = <<>>
    /\ tokens \in PrecInputs
    /\ ast = <<>>
    /\ mode = "none"
    /\ batches = <<>>
    /\ running = {}
    /\ completed = <<>>
    /\ execs = <<>>
    /\ results = <<>>
    /\ aggregations = 0
    /\ probs = <<>>
    /\ match_idx = <<>>
    /\ matched = <<>>
    /\ outcome = "none"
    /\ passes = 0
    /\ pc = "parse"
    /\ gpu_probes = 0
    /\ ServerInit

SpecPrec == InitPrec /\ [][NextParse]_vars

(***************************************************************************)
(* QuantumSQL v4.8 (quantum_sql.py): QuantumTable and QuantumSQLServer.    *)
(* A dict is a function on its keys and a QuantumTable is a record         *)
(* [name, columns, rows].  SQL text is a lexeme sequence as above; a       *)
(* string that the code cuts out of the text (a name, a column, a row      *)
(* value) is the concatenation of its lexemes.  The statements contain no  *)
(* ".", so every digit string is an integer.                               *)
(***************************************************************************)
MaxServerRows == 2

SqlDigits == {"1", "95", "100", "110", "120", "130", "140"}
SqlKeywords == {"CREATE", "DATABASE", "TABLE", "INSERT", "INTO", "VALUES",
                "SELECT", "FROM", "WHERE"}
SqlWords == SqlKeywords \cup
            {"create", "database", "from", "where", "hospital", "lab",
             "patients", "visits", "id", "bp", "zz", "P1", "P2", "P3", "P4",
             "and", "or", "not", "QAND", "QOR", "qand", "XQORX"}

\* \w+ on one lexeme
IsWord(t) == t \in SqlWords \cup SqlDigits \cup WordLexemes

\* str.upper() / re.I matching on one lexeme
Upper(t) ==
    CASE t = "create" -> "CREATE"
      [] t = "database" -> "DATABASE"
      [] t = "from" -> "FROM"
      [] t = "where" -> "WHERE"
      [] OTHER -> t

RECURSIVE Text(_)
\* the str made of the lexemes s
Text(s) == IF s = <<>> THEN "" ELSE Head(s) \o Text(Tail(s))

MinOf(S) == CHOOSE x \in S : \A y \in S : x <= y
MaxOf(S) == CHOOSE x \in S : \A y \in S : x >= y

\* sql.upper().startswith(k1 + " " + k2); no word of the statements extends
\* a keyword, so the prefix test on the last word is an equality
StartsWith(s, k1, k2) ==
    /\ Len(s) >= 3
    /\ Upper(s[1]) = k1 /\ s[2] = " " /\ Upper(s[3]) = k2

\* sql.split()[-1] of a stripped, non-empty sql
LastField(s) ==
    LET ws == {i \in 1..Len(s) : s[i] \in Whitespace}
        a == IF ws = {} THEN 0 ELSE MaxOf(ws)
    IN Text(SubSeq(s, a + 1, Len(s)))

\* re.search(kw + r" (\w+)", sql, re.I): <<>> for no match, else <<group 1>>
SearchName(s, kw) ==
    LET hits == {i \in 1..(Len(s) - 2) :
                    Upper(s[i]) = kw /\ s[i + 1] = " " /\ IsWord(s[i + 2])}
    IN IF hits = {} THEN <<>> ELSE <<s[MinOf(hits) + 2]>>

\* the first match of r"\((.*?)\)" at or after lexeme from: <<>> for none,
\* else <<group 1>>
ParenGroup(s, from) ==
    LET opens == {a \in from..Len(s) :
                     s[a] = "(" /\ \E b \in (a + 1)..Len(s) : s[b] = ")"}
    IN IF opens = {} THEN <<>>
       ELSE LET a == MinOf(opens)
                b == MinOf({c \in (a + 1)..Len(s) : s[c] = ")"})
            IN <<Slice(s, a + 1, b)>>

RECURSIVE Split(_, _)
\* str.split(sep)
Split(s, sep) ==
    LET hits == {i \in 1..Len(s) : s[i] = sep}
    IN IF hits = {} THEN <<s>>
       ELSE LET i == MinOf(hits)
            IN <<Slice(s, 1, i)>> \o Split(SubSeq(s, i + 1, Len(s)), sep)

RECURSIVE StripChar(_, _)
\* str.strip(ch)
StripChar(s, ch) ==
    IF s # <<>> /\ Head(s) = ch THEN StripChar(Tail(s), ch)
    ELSE IF s # <<>> /\ s[Len(s)] = ch
    THEN StripChar(SubSeq(s, 1, Len(s) - 1), ch)
    ELSE s

\* [c.strip() for c in cols.split(",")]
ColumnList(body) ==
    LET parts == Split(body, ",")
    IN [i \in 1..Len(parts) |-> Text(Strip(parts[i]))]

\* [v.strip().strip("'") for v in values.split(",")]
ValueList(body) ==
    LET parts == Split(body, ",")
    IN [i \in 1..Len(parts) |-> Text(StripChar(Strip(parts[i]), "'"))]

\* re.search(r"INSERT INTO (\w+).*VALUES\s*\((.*?)\)", sql, re.I):
\* <<>> for no match, else <<group 1, group 2>>; the greedy .* takes the
\* last VALUES that is followed by a parenthesis group
InsertMatch(s) ==
    LET heads == {i \in 1..(Len(s) - 4) :
                     /\ Upper(s[i]) = "INSERT" /\ s[i + 1] = " "
                     /\ Upper(s[i + 2]) = "INTO" /\ s[i + 3] = " "
                     /\ IsWord(s[i + 4])}
        Tails(i) == {j \in (i + 5)..Len(s) :
                        /\ Upper(s[j]) = "VALUES"
                        /\ LET k == SkipWs(s, j + 1)
                           IN /\ k <= Len(s) /\ s[k] = "("
                              /\ \E b \in (k + 1)..Len(s) : s[b] = ")"}
        good == {i \in heads : Tails(i) # {}}
    IN IF good = {} THEN <<>>
       ELSE LET i == MinOf(good)
                j == MaxOf(Tails(i))
            IN <<s[i + 4], ParenGroup(s, SkipWs(s, j + 1))[1]>>

\* d[k] = v on a dict
DictSet(d, k, v) == [x \in DOMAIN d \cup {k} |-> IF x = k THEN v ELSE d[x]]

\* QuantumTable.__init__
QuantumTable(name, cols) == [name |-> name, columns |-> cols, rows |-> <<>>]

\* QuantumTable.insert with the row put in front
insert_first(tb, row) == [tb EXCEPT !.rows = <<row>> \o @]

\* QuantumTable.insert
insert(tb, row) == [tb EXCEPT !.rows = Append(@, row)]

\* how an execute call ends: the server it leaves, what it returns, what it
\* raises
Ends(dbs, cur, lm, ret, exc) ==
    [databases |-> dbs, current_db |-> cur, logic_mode |-> lm,
     returned |-> ret, raised |-> exc]
Returns(srv, ret) ==
    Ends(srv.databases, srv.current_db, srv.logic_mode, ret, "none")
Raises(srv, exc) ==
    Ends(srv.databases, srv.current_db, srv.logic_mode, None, exc)

\* the CREATE DATABASE branch of execute
CreateDatabaseNamed(srv, dbname) ==
    Ends(DictSet(srv.databases, dbname, EmptyDict), <<dbname>>,
         srv.logic_mode, None, "none")

create_database(srv, s) == CreateDatabaseNamed(srv, LastField(s))

\* the CREATE TABLE branch of execute after the two regular expressions:
\* m is the TABLE match, g the first parenthesis group
CreateTableIn(srv, m, g) ==
    IF m = <<>> THEN Returns(srv, None)
    ELSE IF g = <<>> THEN Raises(srv, "IndexError")
    ELSE IF srv.current_db = <<>> THEN Raises(srv, "KeyError")
    ELSE Ends(DictSet(srv.databases, srv.current_db[1],
                      DictSet(srv.databases[srv.current_db[1]], m[1],
                              QuantumTable(m[1], ColumnList(g[1])))),
              srv.current_db, srv.logic_mode, None, "none")

create_table(srv, s) ==
    CreateTableIn(srv, SearchName(s, "TABLE"), ParenGroup(s, 1))

\* the INSERT branch of execute after the regular expression match m
InsertIn(srv, m) ==
    IF m = <<>> THEN Returns(srv, None)
    ELSE IF srv.current_db = <<>> THEN Raises(srv, "KeyError")
    ELSE IF m[1] \notin DOMAIN srv.databases[srv.current_db[1]]
    THEN Raises(srv, "KeyError")
    ELSE Ends(DictSet(srv.databases, srv.current_db[1],
                      DictSet(srv.databases[srv.current_db[1]], m[1],
                              insert(srv.databases[srv.current_db[1]][m[1]],
                                     ValueList(m[2])))),
              srv.current_db, srv.logic_mode, None, "none")

insert_into(srv, s) == InsertIn(srv, InsertMatch(s))

(***************************************************************************)
(* eval(condition_str, {}, env) on the fragment of Python expressions made *)
(* of names, integer literals, comparisons (chained ones included), not,   *)
(* and, or and parentheses around an expression.  A value is a number      *)
(* (True is 1, False is 0), a str or a builtin function (a name that is    *)
(* not a column resolves in builtins).  Evaluation is parsing with a flag  *)
(* live that is false in the operands a short circuit skips: they are      *)
(* still parsed, since the whole text is compiled before anything runs.    *)
(***************************************************************************)
Num(n) == [t |-> "num", n |-> n, s |-> ""]
Str(x) == [t |-> "str", n |-> 0, s |-> x]
Builtin(x) == [t |-> "fn", n |-> 0, s |-> x]
Bool(b) == Num(IF b THEN 1 ELSE 0)
Truthy(v) ==
    IF v.t = "num" THEN v.n # 0 ELSE IF v.t = "str" THEN v.s # "" ELSE TRUE

\* str.isdigit()
IsDigit(w) == w \in SqlDigits \cup DigitWords

\* float(w) of a digit string
PyFloat(w) ==
    CASE w = "1" -> 1
      [] w = "2" -> 2
      [] w = "95" -> 95
      [] w = "100" -> 100
      [] w = "110" -> 110
      [] w = "120" -> 120
      [] w = "130" -> 130
      [] w = "140" -> 140

\* the order of str on the strings a row of the statements can hold
StrRank(x) ==
    CASE x = "" -> 0
      [] x = "P1" -> 1
      [] x = "P2" -> 2
      [] x = "P3" -> 3
      [] x = "P4" -> 4

\* the words of the statements that are Python keywords, and those that are
\* names of builtins
PyKeywords == {"and", "or", "not", "from"}
PyBuiltins == {"id"}

RECURSIVE PyTokenize(_, _)
\* the Python tokens of s from lexeme i on
PyTokenize(s, i) ==
    IF i > Len(s) THEN <<>>
    ELSE IF s[i] \in Whitespace THEN PyTokenize(s, i + 1)
    ELSE IF s[i] \in {"<", ">", "=", "!"} /\ i < Len(s) /\ s[i + 1] = "="
    THEN <<s[i] \o "=">> \o PyTokenize(s, i + 2)
    ELSE <<s[i]>> \o PyTokenize(s, i + 1)

IsOperand(t) == IsWord(t) /\ t \notin PyKeywords

\* the token lists of the fragment: every token is a name, an integer, a
\* keyword, a comparison operator or a parenthesis, and no parenthesis opens
\* a call or an empty tuple
InFragment(toks) ==
    /\ \A i \in 1..Len(toks) :
          \/ IsWord(toks[i])
          \/ toks[i] \in CmpOps \cup {"(", ")"}
    /\ \A i \in 1..(Len(toks) - 1) :
          toks[i + 1] = "(" => ~IsOperand(toks[i]) /\ toks[i] # ")"
    /\ \A i \in 1..(Len(toks) - 1) :
          toks[i] = "(" => toks[i + 1] # ")"

\* val1 op val2 on two values: [err, b]
PyCompare(a, op, b) ==
    LET rank(v) == IF v.t = "num" THEN v.n ELSE StrRank(v.s)
        same == a.t = b.t
    IN IF op = "==" THEN [err |-> "none", b |-> a = b]
       ELSE IF op = "!=" THEN [err |-> "none", b |-> a # b]
       ELSE IF ~same \/ a.t = "fn" THEN [err |-> "TypeError", b |-> FALSE]
       ELSE [err |-> "none",
             b |-> CASE op = ">" -> rank(a) > rank(b)
                     [] op = "<" -> rank(a) < rank(b)
                     [] op = ">=" -> rank(a) >= rank(b)
                     [] op = "<=" -> rank(a) <= rank(b)]

PyBad == [ok |-> FALSE, v |-> Num(0), err |-> "none", rest |-> <<>>]
PyVal(v, err, rest) == [ok |-> TRUE, v |-> v, err |-> err, rest |-> rest]

\* a name or a literal t, followed by rest
PyOperand(t, rest, env, live) ==
    IF ~IsOperand(t) THEN PyBad
    ELSE IF IsDigit(t) THEN PyVal(Num(PyFloat(t)), "none", rest)
    ELSE IF ~live THEN PyVal(Num(0), "none", rest)
    ELSE IF t \in DOMAIN env THEN PyVal(env[t], "none", rest)
    ELSE IF t \in PyBuiltins THEN PyVal(Builtin(t), "none", rest)
    ELSE PyVal(Num(0), "NameError", rest)

\* the ")" after the expression r in parentheses
PyClose(r) ==
    IF r.ok /\ r.rest # <<>> /\ Head(r.rest) = ")"
    THEN PyVal(r.v, r.err, Tail(r.rest))
    ELSE PyBad

\* not r
PyNegate(r) ==
    IF ~r.ok THEN r ELSE PyVal(Bool(~Truthy(r.v)), r.err, r.rest)

\* l and r, l or r: go tells whether r was evaluated
PyJoin(l, r, go) ==
    IF ~r.ok THEN r
    ELSE PyVal(IF go THEN r.v ELSE l.v, IF go THEN r.err ELSE l.err, r.rest)

RECURSIVE py_atom(_, _, _), py_cmp_loop(_, _, _, _, _, _, _),
          PyCmpNext(_, _, _, _, _, _, _), py_not(_, _, _),
          py_and_loop(_, _, _), py_or_loop(_, _, _)

\* the first operand l of a comparison chain
PyCmpFirst(l, env, live) ==
    IF ~l.ok THEN l
    ELSE py_cmp_loop(l.v, TRUE, l.err, l.rest, env, live, FALSE)

py_cmp(toks, env, live) == PyCmpFirst(py_atom(toks, env, live), env, live)

py_and(toks, env, live) == py_and_loop(py_not(toks, env, live), env, live)

py_or(toks, env, live) == py_or_loop(py_and(toks, env, live), env, live)

py_atom(toks, env, live) ==
    IF toks = <<>> THEN PyBad
    ELSE IF Head(toks) = "(" THEN PyClose(py_or(Tail(toks), env, live))
    ELSE PyOperand(Head(toks), Tail(toks), env, live)

\* last is the value of the last operand, chain whether every comparison so
\* far was true, any whether there was a comparison at all
py_cmp_loop(last, chain, err, rest, env, live, any) ==
    IF rest # <<>> /\ Head(rest) \in CmpOps
    THEN PyCmpNext(last, chain, err, Head(rest),
                   py_atom(Tail(rest), env, live /\ err = "none" /\ chain),
                   env, live)
    ELSE PyVal(IF any THEN Bool(chain) ELSE last, err, rest)

\* last op r, where r was evaluated when the chain was still true
PyCmpNext(last, chain, err, op, r, env, live) ==
    IF ~r.ok THEN PyBad
    ELSE LET go == live /\ err = "none" /\ chain /\ r.err = "none"
             c == PyCompare(last, op, r.v)
         IN py_cmp_loop(IF go THEN r.v ELSE last,
                        IF go THEN c.b ELSE chain,
                        IF go THEN c.err
                        ELSE IF err # "none" THEN err ELSE r.err,
                        r.rest, env, live, TRUE)

py_not(toks, env, live) ==
    IF toks # <<>> /\ Head(toks) = "not"
    THEN PyNegate(py_not(Tail(toks), env, live))
    ELSE py_cmp(toks, env, live)

py_and_loop(l, env, live) ==
    IF l.ok /\ l.rest # <<>> /\ Head(l.rest) = "and"
    THEN py_and_loop(
             PyJoin(l, py_not(Tail(l.rest), env,
                              live /\ l.err = "none" /\ Truthy(l.v)),
                    live /\ l.err = "none" /\ Truthy(l.v)),
             env, live)
    ELSE l

py_or_loop(l, env, live) ==
    IF l.ok /\ l.rest # <<>> /\ Head(l.rest) = "or"
    THEN py_or_loop(
             PyJoin(l, py_and(Tail(l.rest), env,
                              live /\ l.err = "none" /\ ~Truthy(l.v)),
                    live /\ l.err = "none" /\ ~Truthy(l.v)),
             env, live)
    ELSE l

\* what eval gives for the parse r of the whole text
PyOutcome(r) ==
    IF ~r.ok \/ r.rest # <<>> THEN [err |-> "SyntaxError", b |-> FALSE]
    ELSE [err |-> r.err, b |-> r.err = "none" /\ Truthy(r.v)]

EvalTokens(toks, env) ==
    IF ~InFragment(toks) THEN [err |-> "Unmodelled", b |-> FALSE]
    ELSE PyOutcome(py_or(toks, env, TRUE))

\* eval(condition_str, {}, env) followed by the truth test of the list
\* comprehension: [err, b]
eval(cond, env) == EvalTokens(PyTokenize(cond, 1), env)

(***************************************************************************)
(* SELECT in Classic Logic Mode.                                           *)
(***************************************************************************)
\* {c: float(row[i]) if row[i].replace('.', '', 1).isdigit() else row[i]
\*  for i, c in enumerate(tb.columns)}; a later duplicate of a column wins
Env(tb, row) ==
    LET cols == {tb.columns[i] : i \in 1..Len(tb.columns)}
        at(c) == MaxOf({i \in 1..Len(tb.columns) : tb.columns[i] = c})
    IN [c \in cols |-> IF IsDigit(row[at(c)]) THEN Num(PyFloat(row[at(c)]))
                       ELSE Str(row[at(c)])]

\* cond_func(row): [err, b]; row[i] raises IndexError for a row shorter than
\* the column list
cond_func(tb, condition, row) ==
    IF Len(row) < Len(tb.columns) THEN [err |-> "IndexError", b |-> FALSE]
    ELSE eval(condition, Env(tb, row))

\* FilterStep keeping r whatever cond_func gave
FilterStepAll(c, r, rest) ==
    IF c.err # "none" THEN [err |-> c.err, rows |-> <<>>]
    ELSE IF rest.err # "none" THEN rest
    ELSE [err |-> "none", rows |-> <<r>> \o rest.rows]

\* r is kept when cond_func gave c for it; rest is the filtered tail
FilterStep(c, r, rest) ==
    IF c.err # "none" THEN [err |-> c.err, rows |-> <<>>]
    ELSE IF rest.err # "none" THEN rest
    ELSE [err |-> "none",
          rows |-> IF c.b THEN <<r>> \o rest.rows ELSE rest.rows]

RECURSIVE Filter(_, _, _)
\* [r for r in rws if cond_func(r)]: [err, rows]
Filter(tb, condition, rws) ==
    IF rws = <<>> THEN [err |-> "none", rows |-> <<>>]
    ELSE FilterStep(cond_func(tb, condition, Head(rws)), Head(rws),
                    Filter(tb, condition, Tail(rws)))

\* QuantumTable.quantum_select_classic with cond_func of _handle_select
quantum_select_classic(tb, condition) == Filter(tb, condition, tb.rows)

(***************************************************************************)
(* SELECT in Superposition Logic Mode.  After H on every qubit of |0..0>   *)
(* all amplitudes are equal and positive, and X, CX and MCX permute the    *)
(* basis states, so the state is kept as the probability of each basis     *)
(* state b in 0..2^n-1 (qubit i is bit i of b).                            *)
(***************************************************************************)
quantum_compare(val1, val2, op) ==
    CASE op = ">" -> val1 > val2
      [] op = "<" -> val1 < val2
      [] op = ">=" -> val1 >= val2
      [] op = "<=" -> val1 <= val2
      [] op = "==" -> val1 = val2
      [] op = "!=" -> val1 # val2

Bit(b, i) == (b \div Pow2(i)) % 2
FlipBit(b, i) == IF Bit(b, i) = 1 THEN b - Pow2(i) ELSE b + Pow2(i)

\* qc.h(range(n_qubits)) on the initial state
Hadamards(n) == [b \in 0..(Pow2(n) - 1) |-> Q(1, Pow2(n))]
\* qc.x(i)
GateX(st, i) == [b \in DOMAIN st |-> st[FlipBit(b, i)]]
\* qc.cx(c, t), and qc.mcx([c], t)
GateCX(st, c, t) ==
    [b \in DOMAIN st |-> st[IF Bit(b, c) = 1 THEN FlipBit(b, t) ELSE b]]

RECURSIVE MarkTrue(_, _, _, _)
\* the first loop of simulate_amplitude_logic, from condition i (1-based) on
MarkTrue(st, conditions, row_value, i) ==
    IF i > Len(conditions) THEN st
    ELSE LET c == conditions[i]
             nxt == IF quantum_compare(row_value, c.threshold, c.op)
                    THEN GateX(st, i - 1) ELSE st
         IN MarkTrue(nxt, conditions, row_value, i + 1)

RECURSIVE Combine(_, _, _)
\* the second loop of simulate_amplitude_logic, over conditions[:-1]
Combine(st, conditions, i) ==
    IF i >= Len(conditions) THEN st
    ELSE LET nxt == IF conditions[i].logic \in {"QAND", "QOR"}
                    THEN GateCX(st, i - 1, i) ELSE st
         IN Combine(nxt, conditions, i + 1)

\* p_match: the probability of the upper half of the basis states
simulate_amplitude_logic(n_qubits, conditions, row_value) ==
    LET st == Combine(MarkTrue(Hadamards(n_qubits), conditions, row_value, 1),
                      conditions, 1)
        half == Pow2(n_qubits) \div 2
    IN QSum([k \in 1..half |-> st[half + k - 1]])

\* the two-lexeme and one-lexeme comparison operators at lexeme j: the
\* number of lexemes matched (0 for none), two-character forms first
OpLen(s, j) ==
    IF j < Len(s) /\ s[j] \in {"=", "!", ">", "<"} /\ s[j + 1] = "=" THEN 2
    ELSE IF j <= Len(s) /\ s[j] \in {">", "<"} THEN 1
    ELSE 0

RECURSIVE FindConds(_, _)
\* re.findall(r"(\w+)\s*(==|!=|>=|<=|>|<)\s*([\d\.]+)", cond_str) from
\* lexeme i on
FindConds(s, i) ==
    IF i > Len(s) THEN <<>>
    ELSE LET j == SkipWs(s, i + 1)
             n == OpLen(s, j)
             k == SkipWs(s, j + n)
         IN IF IsWord(s[i]) /\ n > 0 /\ k <= Len(s) /\ IsDigit(s[k])
            THEN <<[col |-> s[i], op |-> Text(SubSeq(s, j, j + n - 1)),
                    val |-> s[k]]>> \o FindConds(s, k + 1)
            ELSE FindConds(s, i + 1)

\* re.findall(r"\b(QAND|QOR|QNOT)\b", cond_str)
FindLogic(s) == SelectSeq(s, LAMBDA t : t \in {"QAND", "QOR", "QNOT"})

\* QuantumSQLServer._parse_amplitude_conditions
parse_amplitude_conditions(cond_str) ==
    LET conds == FindConds(cond_str, 1)
        logic_ops == FindLogic(cond_str)
    IN [i \in 1..Len(conds) |->
           [col |-> conds[i].col, threshold |-> PyFloat(conds[i].val),
            logic |-> IF i <= Len(logic_ops) THEN logic_ops[i] ELSE "None",
            op |-> conds[i].op]]

\* results.append((r, p)) in front of the results rest of the later rows
AmplitudeStep(p, rest) ==
    IF rest.err # "none" THEN rest
    ELSE [err |-> "none", p |-> <<p>> \o rest.p]

RECURSIVE Amplitudes(_, _, _)
\* the loop of quantum_select_amplitude over rws: [err, p]
Amplitudes(idx, logic_conditions, rws) ==
    IF rws = <<>> THEN [err |-> "none", p |-> <<>>]
    ELSE IF Len(Head(rws)) < idx THEN [err |-> "IndexError", p |-> <<>>]
    ELSE IF ~IsDigit(Head(rws)[idx]) THEN [err |-> "ValueError", p |-> <<>>]
    ELSE AmplitudeStep(
             simulate_amplitude_logic(Len(logic_conditions) + 1,
                                      logic_conditions,
                                      PyFloat(Head(rws)[idx])),
             Amplitudes(idx, logic_conditions, Tail(rws)))

\* QuantumTable.quantum_select_amplitude: self.columns.index(colname) raises
\* ValueError for an unknown column
quantum_select_amplitude(tb, colname, logic_conditions) ==
    LET at == {i \in 1..Len(tb.columns) : tb.columns[i] = colname}
    IN IF at = {} THEN [err |-> "ValueError", p |-> <<>>]
       ELSE Amplitudes(MinOf(at), logic_conditions, tb.rows)

(***************************************************************************)
(* QuantumSQLServer._handle_select and execute.                            *)
(***************************************************************************)
\* "QAND" in w or "QOR" in w, for a word w of the statements
HasQuantumOp(w) == w \in {"QAND", "QOR", "XQORX"}

\* the mode detection with the two modes exchanged
DetectModeSwapped(cond_text) ==
    IF \E i \in 1..Len(cond_text) : HasQuantumOp(cond_text[i])
    THEN "CLASSIC" ELSE "AMPLITUDE"

\* "QAND" in condition_str or "QOR" in condition_str: both are runs of word
\* characters, so an occurrence lies inside one word lexeme
DetectMode(cond_text) ==
    IF \E i \in 1..Len(cond_text) : HasQuantumOp(cond_text[i])
    THEN "AMPLITUDE" ELSE "CLASSIC"

\* where.group(1).strip() if where else "", for re.search(r"WHERE (.*)")
WhereText(s) ==
    LET hits == {i \in 1..(Len(s) - 1) :
                    Upper(s[i]) = "WHERE" /\ s[i + 1] = " "}
    IN IF hits = {} THEN <<>>
       ELSE Strip(SubSeq(s, MinOf(hits) + 2, Len(s)))

\* the return of the Classic branch
ClassicEnd(srv, matches) ==
    IF matches.err # "none"
    THEN Ends(srv.databases, srv.current_db, "CLASSIC", None, matches.err)
    ELSE Ends(srv.databases, srv.current_db, "CLASSIC",
              [kind |-> "matches", rows |-> matches.rows, p |-> <<>>], "none")

\* the return of the Superposition branch
AmplitudeEnd(srv, tb, res) ==
    IF res.err # "none"
    THEN Ends(srv.databases, srv.current_db, "AMPLITUDE", None, res.err)
    ELSE Ends(srv.databases, srv.current_db, "AMPLITUDE",
              [kind |-> "results", rows |-> tb.rows, p |-> res.p], "none")

\* the Superposition branch: logic_conditions[0] raises IndexError when
\* nothing was parsed
AmplitudeRun(srv, tb, lc) ==
    IF lc = <<>>
    THEN Ends(srv.databases, srv.current_db, "AMPLITUDE", None, "IndexError")
    ELSE AmplitudeEnd(srv, tb, quantum_select_amplitude(tb, lc[1].col, lc))

\* _handle_select from the mode detection on
SelectIn(srv, tb, cond_text, lm) ==
    IF lm = "CLASSIC"
    THEN ClassicEnd(srv, quantum_select_classic(tb, cond_text))
    ELSE AmplitudeRun(srv, tb, parse_amplitude_conditions(cond_text))

\* _handle_select after the FROM match m
SelectFromTable(srv, s, m) ==
    IF m = <<>> THEN Returns(srv, None)
    ELSE IF srv.current_db = <<>> THEN Raises(srv, "KeyError")
    ELSE IF m[1] \notin DOMAIN srv.databases[srv.current_db[1]]
    THEN Raises(srv, "KeyError")
    ELSE SelectIn(srv, srv.databases[srv.current_db[1]][m[1]],
                  WhereText(s), DetectMode(WhereText(s)))

handle_select(srv, s) == SelectFromTable(srv, s, SearchName(s, "FROM"))

\* execute on the stripped statement s
ExecuteStripped(srv, s) ==
    IF StartsWith(s, "CREATE", "DATABASE") THEN create_database(srv, s)
    ELSE IF StartsWith(s, "CREATE", "TABLE") THEN create_table(srv, s)
    ELSE IF StartsWith(s, "INSERT", "INTO") THEN insert_into(srv, s)
    ELSE IF s # <<>> /\ Upper(s[1]) = "SELECT" THEN handle_select(srv, s)
    ELSE Returns(srv, None)

\* QuantumSQLServer.execute
execute(srv, stmt) == ExecuteStripped(srv, Strip(stmt))

(***************************************************************************)
(* A client of one QuantumSQLServer (SpecServer).                          *)
(***************************************************************************)
RECURSIVE Spaced(_)
\* the words joined by single spaces
Spaced(ws) ==
    IF Len(ws) <= 1 THEN ws ELSE <<Head(ws), " ">> \o Spaced(Tail(ws))

DbNames == {"hospital", "lab"}
TableNames == {"patients", "visits"}

CreateDatabase(d) == Spaced(<<"CREATE", "DATABASE", d>>)
\* CREATE TABLE patients (id, bp) and CREATE TABLE visits (bp)
CreateTable(t) ==
    Spaced(<<"CREATE", "TABLE", t>>)
        \o (IF t = "patients" THEN <<" ", "(", "id", ",", " ", "bp", ")">>
            ELSE <<" ", "(", "bp", ")">>)
\* INSERT INTO t VALUES ('id', bp)
InsertInto(t, id, bp) ==
    Spaced(<<"INSERT", "INTO", t, "VALUES">>)
        \o <<" ", "(", "'", id, "'", ",", " ", bp, ")">>
\* SELECT * FROM t WHERE cond, or without WHERE for an empty cond
SelectFrom(t, cond) ==
    Spaced(<<"SELECT", "*", "FROM", t>>)
        \o (IF cond = <<>> THEN <<>> ELSE <<" ", "WHERE", " ">> \o cond)

FilterClassic == Spaced(<<"bp", ">", "100", "and", "bp", "<", "130">>)
FilterQand == Spaced(<<"bp", ">", "100", "QAND", "bp", "<", "130">>)
FilterQor == <<"bp", ">", "=", "110", " ", "QOR", " ", "bp", "<", "100">>
FilterLowerQand == Spaced(<<"bp", ">", "100", "qand", "bp", "<", "130">>)
FilterInsideWord == Spaced(<<"XQORX", ">", "1">>)
FilterUnknownName == Spaced(<<"zz", ">", "1">>)
FilterOnlyLogic == <<"QAND">>

WhereInputs == {<<>>, FilterClassic, FilterQand, FilterQor, FilterLowerQand,
                FilterInsideWord, FilterUnknownName, FilterOnlyLogic}

Statements ==
    {CreateDatabase(d) : d \in DbNames}
        \cup {Spaced(<<"create", "database", "lab">>)}
        \cup {CreateTable(t) : t \in TableNames}
        \cup {Spaced(<<"CREATE", "TABLE", "patients">>)}
        \cup {InsertInto(t, "P1", "120") : t \in TableNames}
        \cup {InsertInto("patients", "P3", "95")}
        \cup {Spaced(<<"INSERT", "INTO", "patients">>)
                  \o <<" ", "(", "'", "P1", "'", ")">>}
        \cup {SelectFrom("patients", w) : w \in WhereInputs}
        \cup {SelectFrom("visits", FilterClassic),
              SelectFrom("visits", FilterQand)}
        \cup {Spaced(<<"SELECT", "*">>), <<" ", "SELECT", " ", "*", " ",
              "from", " ", "patients", " ", "where", " ", "QOR">>}

\* the server object as a record
Server == [databases |-> databases, current_db |-> current_db,
           logic_mode |-> logic_mode]

\* the (database, table) pairs of the server
TablesOf(dbs) == UNION {{<<d, t>> : t \in DOMAIN dbs[d]} : d \in DOMAIN dbs}

RECURSIVE SumRows(_, _)
SumRows(dbs, S) ==
    IF S = {} THEN 0
    ELSE LET x == CHOOSE y \in S : TRUE
         IN Len(dbs[x[1]][x[2]].rows) + SumRows(dbs, S \ {x})

\* the number of rows held by all tables of all databases
RowCount(dbs) == SumRows(dbs, TablesOf(dbs))

\* the engine of quntam_sql.py is not in use
EngineIdle ==
    UNCHANGED <<columns, rows, condition_str, expr, tokens, ast, mode, batches,
                running, completed, execs, results, aggregations, probs,
                match_idx, matched, outcome, passes, gpu_probes>>

\* the server and the result the call leaves behind
Leaves(e) ==
    /\ databases' = e.databases
    /\ current_db' = e.current_db
    /\ logic_mode' = e.logic_mode
    /\ returned' = e.returned
    /\ raised' = e.raised

\* server.execute(stmt), up to its return or its exception
Execute(stmt) ==
    /\ pc = "ready"
    /\ Leaves(execute(Server, stmt))
    /\ RowCount(databases') <= MaxOf({MaxServerRows, RowCount(databases)})
    /\ sql' = stmt
    /\ pc' = "executed"
    /\ EngineIdle

\* the client takes what execute returned or raised and goes on
Reply ==
    /\ pc = "executed"
    /\ sql' = <<>>
    /\ returned' = None
    /\ raised' = "none"
    /\ pc' = "ready"
    /\ UNCHANGED <<databases, current_db, logic_mode>>
    /\ EngineIdle

\* server.set_logic_mode(m)
set_logic_mode(m) ==
    /\ pc = "ready"
    /\ logic_mode' = m
    /\ UNCHANGED <<databases, current_db, sql, returned, raised, pc>>
    /\ EngineIdle

InitServer ==
    /\ columns = <<>>
    /\ rows = <<>>
    /\ condition_str = <<>>
    /\ expr = <<>>
    /\ tokens = <<>>
    /\ ast = <<>>
    /\ mode = "none"
    /\ batches = <<>>
    /\ running = {}
    /\ completed = <<>>
    /\ execs = <<>>
    /\ results = <<>>
    /\ aggregations = 0
    /\ probs = <<>>
    /\ match_idx = <<>>
    /\ matched = <<>>
    /\ outcome = "none"
    /\ passes = 0
    /\ pc = "ready"
    /\ gpu_probes = 0
    /\ ServerInit

NextServer ==
    \/ \E stmt \in Statements : Execute(stmt)
    \/ Reply
    \/ \E m \in {"CLASSIC", "AMPLITUDE"} : set_logic_mode(m)

SpecServer == InitServer /\ [][NextServer]_vars

(***************************************************************************)
(* SELECT in Classic Logic Mode on a loaded table (SpecSelect): the server *)
(* has executed CREATE DATABASE hospital, CREATE TABLE patients (id, bp)   *)
(* and one INSERT for each of some distinct example rows.                  *)
(***************************************************************************)
MaxSelectRows == 4

ExampleIds == <<"P1", "P2", "P3", "P4">>
ExampleBps == <<"120", "110", "95", "140">>

\* the orders in which up to MaxSelectRows distinct example rows are inserted
LoadOrders ==
    UNION { {o \in [1..n -> 1..Len(ExampleIds)] :
                \A i, j \in 1..n : i # j => o[i] # o[j]} :
            n \in 0..Min(MaxSelectRows, Len(ExampleIds)) }

LoadScript(o) ==
    <<CreateDatabase("hospital"), CreateTable("patients")>>
        \o [i \in 1..Len(o) |->
               InsertInto("patients", ExampleIds[o[i]], ExampleBps[o[i]])]

\* the call ending e as the server it leaves
ServerOf(e) == [databases |-> e.databases, current_db |-> e.current_db,
                logic_mode |-> e.logic_mode]

RECURSIVE RunScript(_, _)
\* the server after executing the statements of script in turn
RunScript(srv, script) ==
    IF script = <<>> THEN srv
    ELSE RunScript(ServerOf(execute(srv, Head(script))), Tail(script))

NewServer == [databases |-> EmptyDict, current_db |-> <<>>,
              logic_mode |-> "CLASSIC"]

FilterOrNarrow == <<"bp", ">", "=", "110", " ", "or", " ", "bp", "<", "100">>
FilterNot == Spaced(<<"not", "bp", ">", "100">>)
FilterChain == Spaced(<<"100", "<", "bp", "<", "130">>)
FilterParen ==
    <<"(", "bp", ">", "100", " ", "or", " ", "bp", "<", "=", "95", ")", " ",
      "and", " ", "bp", "!", "=", "120">>
FilterEq == <<"bp", " ", "=", "=", " ", "95">>

ClassicFilters == {FilterClassic, FilterOrNarrow, FilterNot, FilterChain,
                   FilterParen, FilterEq}

InitSelect ==
    /\ columns = <<>>
    /\ rows = <<>>
    /\ condition_str = <<>>
    /\ expr = <<>>
    /\ tokens = <<>>
    /\ ast = <<>>
    /\ mode = "none"
    /\ batches = <<>>
    /\ running = {}
    /\ completed = <<>>
    /\ execs = <<>>
    /\ results = <<>>
    /\ aggregations = 0
    /\ probs = <<>>
    /\ match_idx = <<>>
    /\ matched = <<>>
    /\ outcome = "none"
    /\ passes = 0
    /\ pc = "ready"
    /\ gpu_probes = 0
    /\ \E o \in LoadOrders :
          LET srv == RunScript(NewServer, LoadScript(o))
          IN /\ databases = srv.databases
             /\ current_db = srv.current_db
             /\ logic_mode = srv.logic_mode
    /\ sql = <<>>
    /\ returned = None
    /\ raised = "none"

NextSelect ==
    \/ \E f \in ClassicFilters : Execute(SelectFrom("patients", f))
    \/ Reply

SpecSelect == InitSelect /\ [][NextSelect]_vars

(***************************************************************************)
(* aggregate_results in binary floating point.  numpy computes on IEEE 754 *)
(* doubles: every operation returns the representable number nearest to    *)
(* the exact result, ties to the even significand.  The arithmetic below   *)
(* is that arithmetic with a significand of MantissaBits bits (a double    *)
(* has 53) and an unbounded exponent.  A float is <<m, e>>, standing for   *)
(* m * 2^e, with m = 0 (and e = 0) or 2^(MantissaBits-1) <= |m| <          *)
(* 2^MantissaBits.  The inputs are positive, so no operation meets a zero  *)
(* divisor, an infinity or a nan.                                          *)
(***************************************************************************)
MantissaBits == 5
MaxEntries == 6

RECURSIVE BitLength(_)
BitLength(n) == IF n = 0 THEN 0 ELSE 1 + BitLength(n \div 2)

FZero == <<0, 0>>

\* n without its low k bits (k >= 1), rounded to nearest, ties to even
DropBits(n, k) ==
    LET q == n \div Pow2(k)
        r == n % Pow2(k)
        half == Pow2(k - 1)
    IN IF r > half \/ (r = half /\ q % 2 = 1) THEN q + 1 ELSE q

\* the float nearest to n * 2^e
Float(n, e) ==
    LET len == BitLength(Abs(n))
        k == len - MantissaBits
        m == DropBits(Abs(n), k)
        s == IF n < 0 THEN -1 ELSE 1
    IN IF n = 0 THEN FZero
       ELSE IF k <= 0 THEN <<n * Pow2(-k), e + k>>
       ELSE IF m = Pow2(MantissaBits)
            THEN <<s * Pow2(MantissaBits - 1), e + k + 1>>
       ELSE <<s * m, e + k>>

\* a + b.  An operand more than MantissaBits + 2 binary places below the
\* other is less than a quarter of its last place and leaves it unchanged.
FAdd(a, b) ==
    IF a[1] = 0 THEN b
    ELSE IF b[1] = 0 THEN a
    ELSE IF a[2] - b[2] > MantissaBits + 2 THEN a
    ELSE IF b[2] - a[2] > MantissaBits + 2 THEN b
    ELSE LET e == Min(a[2], b[2])
         IN Float(a[1] * Pow2(a[2] - e) + b[1] * Pow2(b[2] - e), e)

\* a - b
FSub(a, b) == FAdd(a, <<-b[1], b[2]>>)

\* a * b
FMul(a, b) == Float(a[1] * b[1], a[2] + b[2])

\* a / b for b # 0.  The quotient is taken to MantissaBits + 2 places and
\* one more bit records whether anything was left over.
FDiv(a, b) ==
    LET n == Abs(a[1]) * Pow2(MantissaBits + 2)
        q == n \div Abs(b[1])
        sticky == IF n % Abs(b[1]) = 0 THEN 0 ELSE 1
        s == IF (a[1] < 0) = (b[1] < 0) THEN 1 ELSE -1
    IN Float(s * (2 * q + sticky), a[2] - b[2] - (MantissaBits + 3))

RECURSIVE ISqrtIn(_, _, _)
\* the largest s in lo..hi with s * s <= n
ISqrtIn(n, lo, hi) ==
    IF lo = hi THEN lo
    ELSE LET mid == (lo + hi + 1) \div 2
         IN IF mid * mid <= n THEN ISqrtIn(n, mid, hi)
            ELSE ISqrtIn(n, lo, mid - 1)

\* np.sqrt(a) for a >= 0
FSqrt(a) ==
    LET odd == a[2] % 2 = 1
        n == (IF odd THEN 2 * a[1] ELSE a[1]) * Pow2(2 * MantissaBits + 2)
        e == IF odd THEN a[2] - 1 ELSE a[2]
        root == ISqrtIn(n, 0, Pow2(2 * MantissaBits + 2))
        sticky == IF root * root = n THEN 0 ELSE 1
    IN Float(2 * root + sticky, (e \div 2) - (MantissaBits + 2))

\* a >= b
FGe(a, b) ==
    IF a[1] = 0 \/ b[1] = 0 THEN a[1] >= b[1]
    ELSE IF a[2] - b[2] > MantissaBits THEN a[1] > 0
    ELSE IF b[2] - a[2] > MantissaBits THEN b[1] < 0
    ELSE LET e == Min(a[2], b[2])
         IN a[1] * Pow2(a[2] - e) >= b[1] * Pow2(b[2] - e)

RECURSIVE SumFrom(_, _)
\* res += a[i] for the entries of v in order
SumFrom(res, v) ==
    IF v = <<>> THEN res ELSE SumFrom(FAdd(res, Head(v)), Tail(v))

RECURSIVE Lane(_, _, _)
\* r[j] over the whole blocks of eight: v[j], v[j + 8], ...
Lane(v, j, blocks) ==
    IF blocks = 1 THEN v[j]
    ELSE FAdd(Lane(v, j, blocks - 1), v[8 * (blocks - 1) + j])

\* np.sum(v) for at most 128 entries: in order below eight entries, else
\* eight running sums added pairwise and then the rest in order
NpSum(v) ==
    IF Len(v) < 8 THEN SumFrom(FZero, v)
    ELSE LET blocks == Len(v) \div 8
             r == [j \in 1..8 |-> Lane(v, j, blocks)]
             res == FAdd(FAdd(FAdd(r[1], r[2]), FAdd(r[3], r[4])),
                         FAdd(FAdd(r[5], r[6]), FAdd(r[7], r[8])))
         IN SumFrom(res, SubSeq(v, 8 * blocks + 1, Len(v)))

\* np.mean(v)
NpMean(v) == FDiv(NpSum(v), Float(Len(v), 0))

\* the squared deviations np.std sums
Deviations(v, mean) ==
    [i \in 1..Len(v) |-> FMul(FSub(v[i], mean), FSub(v[i], mean))]

\* np.std(v)
NpStd(v) == FSqrt(NpMean(Deviations(v, NpMean(v))))

RECURSIVE WhereAtLeast(_, _, _)
\* np.where(v >= thr)[0] from index i on
WhereAtLeast(v, thr, i) ==
    IF i > Len(v) THEN <<>>
    ELSE IF FGe(v[i], thr) THEN <<i - 1>> \o WhereAtLeast(v, thr, i + 1)
    ELSE WhereAtLeast(v, thr, i + 1)

\* probs_all /= np.sum(probs_all)
Normalized(v, total) == [i \in 1..Len(v) |-> FDiv(v[i], total)]

\* thr = np.mean(probs_all) + np.std(probs_all)
Threshold(probs_all) == FAdd(NpMean(probs_all), NpStd(probs_all))

\* the pair aggregate_results returns
Selected(probs_all) == <<probs_all, WhereAtLeast(probs_all, Threshold(probs_all), 1)>>

\* aggregate_results on floats
aggregate_results_rounded(batch_results, rws) ==
    LET cat == Concatenate(SortById(batch_results))
        cut == SubSeq(cat, 1, Min(Len(rws), Len(cat)))
    IN Selected(Normalized(cut, NpSum(cut)))

\* worker scores: 9/32, 1/2 and 1
ScoreInputs == {Float(9, -5), Float(1, -1), Float(1, 0)}

InitAgg ==
    /\ columns = <<>>
    /\ \E n \in 1..MaxEntries :
          /\ rows = [i \in 1..n |-> <<i>>]
          /\ \E v \in [1..n -> ScoreInputs] : results = <<<<0, v>>>>
    /\ condition_str = <<>>
    /\ expr = <<>>
    /\ tokens = <<>>
    /\ ast = <<>>
    /\ mode = "none"
    /\ batches = <<>>
    /\ running = {}
    /\ completed = <<>>
    /\ execs = <<>>
    /\ aggregations = 0
    /\ probs = <<>>
    /\ match_idx = <<>>
    /\ matched = <<>>
    /\ outcome = "none"
    /\ passes = 0
    /\ pc = "aggregate"
    /\ gpu_probes = 0
    /\ ServerInit

\* probs, match_idx = aggregate_results(results, rows)
Aggregate ==
    /\ pc = "aggregate"
    /\ LET out == aggregate_results_rounded(results, rows)
       IN /\ probs' = out[1]
          /\ match_idx' = out[2]
    /\ aggregations' = aggregations + 1
    /\ pc' = "aggregated"
    /\ UNCHANGED <<columns, rows, condition_str, expr, tokens, ast, mode,
                   batches, running, completed, execs, results, matched,
                   outcome, passes, gpu_probes>>
    /\ UNCHANGED serverVars

NextAgg == Aggregate

SpecAgg == InitAgg /\ [][NextAgg]_vars

(***************************************************************************)
(* tokenize on its own: expr ranges over the strings of at most MaxLexemes *)
(* lexemes, normalized or not.                                             *)
(***************************************************************************)
MaxLexemes == 4

TokLexemes == {"(", ")", "bp", "2", "<", ">", "!", "=", ".", "-", " "}

TokInputs ==
    { s \in UNION { [1..n -> TokLexemes] : n \in 0..MaxLexemes } :
        WellFormedStr(s) }

InitTok ==
    /\ columns = <<>>
    /\ rows = <<>>
    /\ condition_str = <<>>
    /\ expr \in TokInputs
    /\ tokens = <<>>
    /\ ast = <<>>
    /\ mode = "none"
    /\ batches = <<>>
    /\ running = {}
    /\ completed = <<>>
    /\ execs = <<>>
    /\ results = <<>>
    /\ aggregations = 0
    /\ probs = <<>>
    /\ match_idx = <<>>
    /\ matched = <<>>
    /\ outcome = "none"
    /\ passes = 0
    /\ pc = "tokenize"
    /\ gpu_probes = 0
    /\ ServerInit

\* tokens = tokenize(expr)
Tokenize ==
    /\ pc = "tokenize"
    /\ tokens' = tokenize(expr)
    /\ outcome' = "ok"
    /\ pc' = "tokenized"
    /\ UNCHANGED <<columns, rows, condition_str, expr, ast, mode, batches,
                   running, completed, execs, results, aggregations, probs,
                   match_idx, matched, passes, gpu_probes>>
    /\ UNCHANGED serverVars

NextTok == Tokenize

SpecTok == InitTok /\ [][NextTok]_vars

(***************************************************************************)
(* Properties.                                                             *)
(***************************************************************************)
Returned == pc = "done" /\ outcome = "ok"

ValidFilters == {FilterGt, FilterBetween, FilterVarOr}

\* C1: for non-empty rows and a valid filter, the score vector returned by
\* run_query has len(rows) entries, each in [0,1], and the entries sum to 1.
C1_ScoreVectorIsDistribution ==
    (Returned /\ condition_str \in ValidFilters) =>
        /\ Len(probs) = Len(rows)
        /\ \A i \in 1..Len(probs) :
              QLe(Q(0, 1), probs[i]) /\ QLe(probs[i], Q(1, 1))
        /\ QSum(probs) = Q(1, 1)

\* the selection rule of C2 written on integers: with p_i = probs[i],
\* S = sum p and n = len, p_i >= mean + std iff n*p_i - S >= 0 and
\* (n*p_i - S)^2 >= n * sum(p_j^2) - S^2
SumSquares(v) == QSum([j \in 1..Len(v) |-> QMul(v[j], v[j])])
MeanPlusStdReached(i) ==
    LET n == Q(Len(probs), 1)
        d == QSub(QMul(n, probs[i]), QSum(probs))
    IN /\ QLe(Q(0, 1), d)
       /\ QLe(QSub(QMul(n, SumSquares(probs)),
                   QMul(QSum(probs), QSum(probs))),
              QMul(d, d))

\* C2: matched is exactly the rows whose aggregated score is at least
\* mean + stddev of the whole returned score vector, in ascending row order.
C2_ThresholdLaw ==
    Returned =>
        /\ \A i \in 1..Len(probs) :
              MeanPlusStdReached(i)
                  <=> (\E j \in 1..Len(match_idx) : match_idx[j] = i - 1)
        /\ \A j \in 1..Len(match_idx) : match_idx[j] \in 0..(Len(rows) - 1)
        /\ \A j, k \in 1..Len(match_idx) : j < k => match_idx[j] < match_idx[k]
        /\ Len(matched) = Len(match_idx)
        /\ \A j \in 1..Len(matched) : matched[j] = rows[match_idx[j] + 1]

\* C2 witness: a returned query that selected some rows and left others out
C2_Witness ==
    Returned /\ Len(matched) >= 1 /\ Len(matched) < Len(rows) /\ Len(batches) >= 2

\* C3: run_query on "bp >> 100" fails in the parser and starts no worker.
C3_MalformedOperatorRejected ==
    (pc # "idle" /\ condition_str = FilterGtGt /\ rows # <<>>) =>
        /\ pc = "done"
        /\ outcome = "IndexError"
        /\ batches = <<>>
        /\ completed = <<>>

\* the three malformations named by C4, stated on the token list
RECURSIVE ParenBalance(_, _)
\* depth after the tokens, or -1 once a ")" closes nothing
ParenBalance(toks, depth) ==
    IF toks = <<>> THEN depth
    ELSE IF Head(toks) = "(" THEN ParenBalance(Tail(toks), depth + 1)
    ELSE IF Head(toks) = ")"
         THEN IF depth = 0 THEN -1 ELSE ParenBalance(Tail(toks), depth - 1)
    ELSE ParenBalance(Tail(toks), depth)

UnmatchedParen(toks) == ParenBalance(toks, 0) # 0

ExhaustedMidExpression(toks) ==
    \/ toks = <<>>
    \/ Lower(toks[Len(toks)]) \in {"and", "or", "not", "("}

OperatorWithoutLeft(toks) ==
    \E i \in 1..Len(toks) :
        /\ toks[i] \in CmpOps
        /\ (i = 1 \/ Lower(toks[i - 1]) \in {"(", "and", "or", "not"} \cup CmpOps)

\* C4: parse_expression raises, and returns no AST, whenever the tokens run
\* out mid-expression, a parenthesis is unmatched, or a comparison operator
\* has no left operand.
C4_MalformedTokensRejected ==
    (pc = "parsed" /\ (\/ ExhaustedMidExpression(tokens)
                       \/ UnmatchedParen(tokens)
                       \/ OperatorWithoutLeft(tokens))) =>
        outcome = "IndexError" /\ ast = <<>>

RECURSIVE CmpColumns(_, _)
\* the column names of the CMP leaves of an AST in prefix form
CmpColumns(tree, i) ==
    IF i > Len(tree) THEN {}
    ELSE IF tree[i] = "CMP" THEN {tree[i + 1]} \cup CmpColumns(tree, i + 4)
    ELSE IF tree[i] = "VAR" THEN CmpColumns(tree, i + 2)
    ELSE CmpColumns(tree, i + 1)

SchemaColumns == {columns[i] : i \in 1..Len(columns)}

\* C6: a filter with a CMP leaf on a column outside the schema makes run_query
\* fail before any simulation, with no result.
C6_UnknownColumnRejected ==
    (pc # "idle" /\ rows # <<>> /\ CmpColumns(ast, 1) \ SchemaColumns # {}) =>
        /\ pc = "done"
        /\ outcome \notin {"ok", "none"}
        /\ batches = <<>>
        /\ completed = <<>>
        /\ probs = <<>>

\* C7: normalize_expr is idempotent: a second application changes nothing.
C7_NormalizeIdempotent ==
    passes = 2 => expr = normalize_expr(condition_str)

RECURSIVE ConcatRows(_)
ConcatRows(bs) == IF bs = <<>> THEN <<>> ELSE Head(bs).rows \o ConcatRows(Tail(bs))

\* C8: once run_query has built its batches for non-empty rows, batch k-1 is
\* the k-th list element, no batch is empty, and the slices concatenated in
\* list order are the row sequence.
C8_PartitionCoversRows ==
    (pc # "idle" /\ rows # <<>> /\ outcome # "IndexError") =>
        /\ Len(batches) >= 1
        /\ \A k \in 1..Len(batches) :
              /\ batches[k].id = k - 1
              /\ batches[k].rows # <<>>
        /\ ConcatRows(batches) = rows

\* C8 witness: three rows split over two workers into slices of 2 and 1
C8_Witness ==
    /\ pc = "pool" /\ Len(rows) = 3 /\ Len(batches) = 2
    /\ Len(batches[1].rows) = 2 /\ Len(batches[2].rows) = 1

\* the (batch_id, score_vector) pairs in the order the workers finished
CompletionOrder == [j \in 1..Len(completed) |-> completed[j].result]

\* C9: aggregating the pairs in the order the workers happened to finish
\* gives the score vector and the indices that run_query returned.
C9_CompletionOrderIrrelevant ==
    Returned => aggregate_results(CompletionOrder, rows) = <<probs, match_idx>>

\* C9 witness: a returned query whose last batch finished first, with batch
\* vectors that differ
C9_Witness ==
    /\ Returned /\ Len(completed) >= 2
    /\ completed[1].task = Len(batches)
    /\ completed[1].result[2] # completed[2].result[2]

\* C10: every batch runs exactly once, aggregate_results runs once and only
\* after every batch has returned, and nothing is returned before that.
C10_ForkJoin ==
    /\ \A k \in DOMAIN execs : execs[k] <= 1
    /\ aggregations <= 1
    /\ (aggregations = 1 \/ outcome = "ok") =>
          /\ running = {}
          /\ aggregations = 1
          /\ Len(completed) = Len(batches)
          /\ \A k \in 1..Len(batches) :
                /\ execs[k] = 1
                /\ Cardinality({j \in 1..Len(completed) : completed[j].task = k}) = 1
                /\ results[k] = ResultOf(k)
    /\ (pc # "done" \/ outcome # "ok") =>
          probs = <<>> /\ match_idx = <<>> /\ matched = <<>> /\ results = <<>>

\* C10 witness: a query over several batches has returned
C10_Witness == Returned /\ Len(batches) >= 3

\* C11: no step of a run_query call changes the rows it was given, its filter
\* string or the engine's column list, whether the call succeeds or fails,
\* and each matched row of a returned call is the row at its selected index.
C11_InputsNotMutated ==
    [][ /\ columns' = columns
        /\ (pc # "idle" /\ pc' # "idle") =>
              rows' = rows /\ condition_str' = condition_str
        /\ (pc' = "done" /\ outcome' = "ok") =>
              /\ Len(matched') = Len(match_idx')
              /\ \A j \in 1..Len(matched') :
                    \E i \in 1..Len(rows) :
                        i = match_idx'[j] + 1 /\ matched'[j] = rows[i]
      ]_vars

\* C11 witness: a call over all four rows returned matches, with the rows and
\* the schema as they were passed in
C11_Witness ==
    /\ Returned /\ matched # <<>>
    /\ rows = SubSeq(ExampleRows, 1, 4)
    /\ columns = ExampleColumns

\* the table the SELECT statements of SpecSelect read
Patients == databases["hospital"]["patients"]

\* the bp of an example row, by its id
BpOf(row) ==
    CASE row[1] = "P1" -> 120
      [] row[1] = "P2" -> 110
      [] row[1] = "P3" -> 95
      [] row[1] = "P4" -> 140

\* whether the filter f is true of a row whose bp is the number b
ClassicallyTrue(f, b) ==
    CASE f = FilterClassic -> b > 100 /\ b < 130
      [] f = FilterOrNarrow -> b >= 110 \/ b < 100
      [] f = FilterNot -> ~(b > 100)
      [] f = FilterChain -> 100 < b /\ b < 130
      [] f = FilterParen -> (b > 100 \/ b <= 95) /\ b # 120
      [] f = FilterEq -> b = 95

RECURSIVE TrueRows(_, _)
\* the rows of rws of which f is true, in their order
TrueRows(f, rws) ==
    IF rws = <<>> THEN <<>>
    ELSE (IF ClassicallyTrue(f, BpOf(Head(rws))) THEN <<Head(rws)>> ELSE <<>>)
             \o TrueRows(f, Tail(rws))

Leaf(x) ==
    IF Len(x) = 1 THEN <<"VAR", x[1]>> ELSE <<"CMP", x[1], x[2], x[3]>>
TreeAnd(l, r) == <<"AND">> \o l \o r
TreeOr(l, r) == <<"OR">> \o l \o r
TreeNot(n) == <<"NOT">> \o n

\* C13: parse_expression binds NOT tighter than AND and AND tighter than OR,
\* groups equal operators to the left, and lets parentheses override:
\* "x or y and z" is OR(x, AND(y, z)), "x and y or z" is OR(AND(x, y), z),
\* "not x and y" is AND(NOT(x), y), "not x or y" is OR(NOT(x), y),
\* "x and y and z" is AND(AND(x, y), z), "x or y or z" is OR(OR(x, y), z)
\* and "(x or y) and z" is AND(OR(x, y), z).
C13_Precedence ==
    pc = "parsed" =>
        /\ outcome = "ok"
        /\ \A x \in Operands, y \in Operands, z \in Operands,
              o \in KwOr, a \in KwAnd, n \in KwNot :
              /\ tokens = OrAnd(x, y, z, o, a) =>
                    ast = TreeOr(Leaf(x), TreeAnd(Leaf(y), Leaf(z)))
              /\ tokens = AndOr(x, y, z, o, a) =>
                    ast = TreeOr(TreeAnd(Leaf(x), Leaf(y)), Leaf(z))
              /\ tokens = NotAnd(x, y, n, a) =>
                    ast = TreeAnd(TreeNot(Leaf(x)), Leaf(y))
              /\ tokens = NotOr(x, y, n, o) =>
                    ast = TreeOr(TreeNot(Leaf(x)), Leaf(y))
              /\ tokens = AndAnd(x, y, z, a) =>
                    ast = TreeAnd(TreeAnd(Leaf(x), Leaf(y)), Leaf(z))
              /\ tokens = OrOr(x, y, z, o) =>
                    ast = TreeOr(TreeOr(Leaf(x), Leaf(y)), Leaf(z))
              /\ tokens = ParenOrAnd(x, y, z, o, a) =>
                    ast = TreeAnd(TreeOr(Leaf(x), Leaf(y)), Leaf(z))

\* C13 witness: "bp or zz and fever" has been parsed, to OR(bp, AND(zz, fever))
C13_Witness ==
    /\ pc = "parsed"
    /\ tokens = <<"bp", "or", "zz", "and", "fever">>
    /\ ast = <<"OR", "VAR", "bp", "AND", "VAR", "zz", "VAR", "fever">>

\* a call has chosen its mode and built its batches
ModeChosen == pc = "pool" \/ Returned

\* C14: a run_query call chooses its mode once, before the batches are built:
\* every batch carries that mode, it is "sparse" when ceil(log2(row count))
\* plus the overhead exceeds the limit and otherwise "gpu" or "cpu" after one
\* hardware probe, and no later step of the call changes the mode or the
\* batches.
C14_ModeChosenOnce ==
    [][ /\ ModeChosen' =>
              /\ batches' # <<>>
              /\ \A k \in 1..Len(batches') : batches'[k].mode = mode'
              /\ IF CeilLog2(Len(rows')) + QubitOverhead > QubitLimit
                 THEN mode' = "sparse"
                 ELSE mode' \in {"gpu", "cpu"} /\ gpu_probes' = 1
        /\ (ModeChosen /\ ModeChosen') =>
              mode' = mode /\ batches' = batches
      ]_vars

\* C14 witness: a returned call over four rows whose batches, more than one,
\* all ran in the call's mode
C14_Witness ==
    /\ Returned
    /\ Len(rows) = 4
    /\ Len(batches) > 1
    /\ \A k \in 1..Len(batches) : batches[k].mode = mode

MaxRowCount == 64

\* C17: whatever the row count (at least 1), the qubit budget exceeds the
\* limit, so run_query selects "sparse": no call and no batch ever runs in
\* "gpu" or "cpu" mode, and has_gpu is never called.
C17_AlwaysSparse ==
    /\ QubitOverhead > QubitLimit
    /\ pc = "idle" =>
          \A n \in 1..MaxRowCount, gpu \in BOOLEAN :
              /\ TotalQubits(n) > QubitLimit
              /\ SelectMode(TotalQubits(n), gpu) = "sparse"
    /\ mode \in {"none", "sparse"}
    /\ \A k \in 1..Len(batches) : batches[k].mode = "sparse"
    /\ gpu_probes = 0
    /\ ModeChosen => mode = "sparse"

\* C17 witness: a call over one row, the smallest budget, returned after
\* running in sparse mode without a probe
C17_Witness ==
    /\ Returned
    /\ Len(rows) = 1
    /\ mode = "sparse"
    /\ batches[1].mode = "sparse"
    /\ gpu_probes = 0

\* every entry of v is the same value
Identical(v) == \A i, j \in 1..Len(v) : v[i] = v[j]

\* C15: when every entry of the aggregated score vector is identical, the
\* threshold equals the common value and aggregate_results selects all
\* rows: the matched indices are 0..len(rows)-1.
C15_IdenticalSelectsAll ==
    (pc = "aggregated" /\ Identical(probs)) =>
        /\ Threshold(probs) = probs[1]
        /\ match_idx = [i \in 1..Len(rows) |-> i - 1]

\* the token classes of the pattern, as sets of tokens
Decimals == {a \o "." \o b : a, b \in DigitWords}
TokenClasses == {"(", ")"} \cup IdentWords \cup CmpOps \cup Decimals \cup DigitWords

\* the lexemes a token is made of
Lexemes(tok) ==
    IF tok \in {"<=", ">=", "==", "!="}
    THEN CHOOSE l \in {<<c, "=">> : c \in {"<", ">", "!", "="}} : l[1] \o l[2] = tok
    ELSE IF tok \in Decimals
    THEN CHOOSE l \in {<<a, ".", b>> : a, b \in DigitWords} : l[1] \o l[2] \o l[3] = tok
    ELSE <<tok>>

\* lexs occurs in s at position p
OccursAt(lexs, s, p) ==
    /\ p + Len(lexs) - 1 <= Len(s)
    /\ \A k \in 1..Len(lexs) : s[p + k - 1] = lexs[k]

\* position k of s starts no token: it is neither a parenthesis nor a word,
\* nor < or >, nor the first character of a two-character operator
StartsNoToken(s, k) ==
    /\ s[k] \notin {"(", ")", "<", ">"} \cup WordLexemes
    /\ s[k] \in {"!", "="} => ~(k + 1 <= Len(s) /\ s[k + 1] = "=")

RECURSIVE TokensOf(_, _, _)
\* toks are the tokens of s from position i on, left to right: each token
\* is of a token class and stands in s after the previous one, what lies
\* between two tokens starts no token, and a < or > that is a token is not
\* followed by =
TokensOf(toks, s, i) ==
    IF toks = <<>> THEN \A k \in i..Len(s) : StartsNoToken(s, k)
    ELSE LET lexs == Lexemes(Head(toks))
             at == {p \in i..Len(s) : OccursAt(lexs, s, p)}
             p == MinOf(at)
         IN /\ Head(toks) \in TokenClasses
            /\ at # {}
            /\ \A k \in i..(p - 1) : StartsNoToken(s, k)
            /\ Head(toks) \in {"<", ">"} =>
                   ~(p + 1 <= Len(s) /\ s[p + 1] = "=")
            /\ TokensOf(Tail(toks), s, p + Len(lexs))

\* C16: tokenize returns the tokens of the string in left-to-right order,
\* takes each two-character comparison operator (<=, >=, ==, !=) as one
\* token in preference to the one-character forms, and drops every
\* character that belongs to no token class without raising an error.
C16_TokenizeScan ==
    pc = "tokenized" => outcome = "ok" /\ TokensOf(tokens, expr, 1)

\* a string with a two-character operator and a character of no class
C16_Witness ==
    /\ pc = "tokenized"
    /\ expr = <<"bp", "<", "=", "-">>
    /\ tokens = <<"bp", "<=">>

\* the statement starts with SELECT once stripped
IsSelect(s) == Strip(s) # <<>> /\ Upper(Strip(s)[1]) = "SELECT"

\* the text after WHERE holds QAND or QOR, as a word or inside one
WhereHoldsQuantumOp(s) ==
    \E i \in 1..Len(WhereText(Strip(s))) :
        WhereText(Strip(s))[i] \in {"QAND", "QOR", "XQORX"}

\* the table a statement names after FROM is a table of the current database
NamesCurrentTable(s) ==
    /\ SearchName(Strip(s), "FROM") # <<>>
    /\ current_db # <<>>
    /\ SearchName(Strip(s), "FROM")[1] \in DOMAIN databases[current_db[1]]

\* this step is a SELECT on a table of the current database
SelectStep == pc = "ready" /\ pc' = "executed" /\ IsSelect(sql')
                 /\ NamesCurrentTable(sql')

\* what the SELECT of this step did was the Superposition branch
RanAmplitude == returned'.kind = "results" \/ raised' \in {"IndexError", "ValueError"}

\* what the SELECT of this step did was the Classic branch
RanClassic ==
    returned'.kind = "matches" \/ raised' \in {"SyntaxError", "NameError", "TypeError"}

\* C18: a SELECT's logic mode is fixed by its WHERE text alone (Amplitude
\* when it holds QAND or QOR, else Classic): whatever logic_mode was set
\* before, the SELECT runs in the detected mode and logic_mode is the
\* detected mode afterwards.
C18_ModeFromWhereText ==
    [][SelectStep =>
          IF WhereHoldsQuantumOp(sql')
          THEN logic_mode' = "AMPLITUDE" /\ RanAmplitude
          ELSE logic_mode' = "CLASSIC" /\ RanClassic]_vars

\* a SELECT with QAND has returned per-row probabilities, and the mode
\* (Classic at construction) is Amplitude
C18_Witness ==
    /\ pc = "executed"
    /\ sql = SelectFrom("patients", FilterQand)
    /\ returned.kind = "results"
    /\ Len(returned.rows) >= 1
    /\ logic_mode = "AMPLITUDE"

\* this step is the execute call of statement stmt
Executes(stmt) == pc = "ready" /\ pc' = "executed" /\ sql' = stmt

\* every database but d is as it was
OtherDatabasesKept(d) ==
    /\ DOMAIN databases' = DOMAIN databases \cup {d}
    /\ \A x \in DOMAIN databases \ {d} : databases'[x] = databases[x]

\* every table of database d but t is as it was
OtherTablesKept(d, t) ==
    /\ DOMAIN databases'[d] = DOMAIN databases[d] \cup {t}
    /\ \A x \in DOMAIN databases[d] \ {t} : databases'[d][x] = databases[d][x]

\* CREATE DATABASE d: d is current and has no tables
DatabaseCreated(d) ==
    /\ current_db' = <<d>>
    /\ databases'[d] = EmptyDict
    /\ OtherDatabasesKept(d)

\* CREATE TABLE t with a current database: t is there with its columns and
\* no rows
TableCreated(t) ==
    current_db # <<>> =>
        /\ current_db' = current_db
        /\ OtherDatabasesKept(current_db[1])
        /\ OtherTablesKept(current_db[1], t)
        /\ databases'[current_db[1]][t].name = t
        /\ databases'[current_db[1]][t].columns =
               (IF t = "patients" THEN <<"id", "bp">> ELSE <<"bp">>)
        /\ databases'[current_db[1]][t].rows = <<>>

\* INSERT INTO t of the row (id, bp), t a table of the current database:
\* the row is the new last row of t
RowAppended(t, id, bp) ==
    (current_db # <<>> /\ t \in DOMAIN databases[current_db[1]]) =>
        /\ current_db' = current_db
        /\ logic_mode' = logic_mode
        /\ OtherDatabasesKept(current_db[1])
        /\ OtherTablesKept(current_db[1], t)
        /\ databases'[current_db[1]][t] =
               [databases[current_db[1]][t] EXCEPT
                   !.rows = databases[current_db[1]][t].rows \o <<<<id, bp>>>>]

\* C19: CREATE DATABASE d makes d the current database with no tables and
\* CREATE TABLE t makes t an empty table of the current database, also when
\* d or t existed (their tables and rows are gone); INSERT appends exactly
\* one row at the end of the named table and changes nothing else; SELECT
\* changes no database, table or row.
C19_StatementEffects ==
    [][/\ \A d \in DbNames : Executes(CreateDatabase(d)) => DatabaseCreated(d)
       /\ Executes(Spaced(<<"create", "database", "lab">>)) => DatabaseCreated("lab")
       /\ \A t \in TableNames : Executes(CreateTable(t)) => TableCreated(t)
       /\ \A t \in TableNames : \A r \in {<<"P1", "120">>, <<"P3", "95">>} :
              Executes(InsertInto(t, r[1], r[2])) => RowAppended(t, r[1], r[2])
       /\ (pc = "ready" /\ pc' = "executed" /\ IsSelect(sql')) =>
              databases' = databases /\ current_db' = current_db]_vars

\* a second, different row has been appended behind the first
C19_Witness ==
    /\ pc = "executed"
    /\ sql = InsertInto("patients", "P3", "95")
    /\ current_db # <<>>
    /\ "patients" \in DOMAIN databases[current_db[1]]
    /\ databases[current_db[1]]["patients"].rows = <<<<"P1", "120">>, <<"P3", "95">>>>

====
